---- MODULE Spec2Model ----
\* Model of the Tekton action resources of terraform-provider-facets:
\* facets_tekton_action_kubernetes and facets_tekton_action_aws.
\* One logical resource is driven through Create, Read, Update, Delete and
\* ImportState against an object store (the cluster API) that a second
\* client may write to between any two calls of the provider.
\* Spec is the whole resource; ImportSpec is the adoption of existing objects;
\* NamesSpec and LabelsSpec exercise name generation and label building on
\* their own, with the arguments in plan and the result in state.
EXTENDS Integers, Sequences, FiniteSets, TLC

VARIABLES
    flavor,        \* which resource type this instance is
    clusterEnv,    \* value of the CLUSTER_ID environment variable ("" = unset)
    store,         \* the cluster: object key -> stored object
    state,         \* the Terraform state recorded for the resource
    op,            \* the operation in progress, or the last one finished
    pc,            \* position of the operation: [phase, i]
    plan,          \* the handler's working model (plan, or prior state)
    token,         \* resourceVersion returned by the handler's last get
    calls,         \* store calls issued by the operation, in order
    diag,          \* diagnostics of the operation
    extLog,        \* history: second-client writes made during the operation
    nOps,          \* operations started
    nExtWrites,    \* second-client modifications made
    nExtDeletes    \* second-client deletions made

vars == <<flavor, clusterEnv, store, state, op, pc, plan, token, calls, diag,
          extLog, nOps, nExtWrites, nExtDeletes>>

-----------------------------------------------------------------------------
\* Bounds of the model

MaxOps == 3
MaxExt == 1

-----------------------------------------------------------------------------
\* Inputs

Flavors == {"kubernetes", "aws"}

\* the process environments the resources are run in
Processes ==
    { [flavor |-> "kubernetes", clusterEnv |-> ""],
      [flavor |-> "aws",        clusterEnv |-> "c-42"] }

Null == "<null>"

BaseSpec ==
    [Name |-> "restart", FacetsResourceName |-> "my-app",
     EnvUniqueName |-> "prod", Kind |-> "service", Namespace |-> ""]

Specs ==
    { BaseSpec,
      [BaseSpec EXCEPT !.FacetsResourceName = "db", !.EnvUniqueName = "dev"],
      [BaseSpec EXCEPT !.Kind = "job", !.Namespace = "ci"] }

-----------------------------------------------------------------------------
\* Identity generation

MaxNameLen == 63

\* the fields name generation is exercised with
NameParts == {"app", "prod", "app-prod"}

\* crypto/md5 rendered with %x, tabulated for the hash inputs of Specs and of
\* the triples over NameParts
Md5Hex(s) ==
    CASE s = "my-app-prod-restart"        -> "948ce4313702ddbacb27f5aabdf4fe82"
      [] s = "db-dev-restart"             -> "e465e959f3f2d877fa2b2c6f88a14519"
      [] s = "app-app-app"                -> "3bf649ebe568cb09561a1b0559f488c9"
      [] s = "app-app-app-prod"           -> "9087a8b06ca31b87669d56b95becf0fe"
      [] s = "app-app-prod"               -> "b634858670722136770bbd3413ea1def"
      [] s = "app-app-prod-app"           -> "718765d88734069eefdf6be2884749cd"
      [] s = "app-app-prod-app-prod"      -> "07fde50264a52aa90239366a5ad0c78f"
      [] s = "app-app-prod-prod"          -> "2d5df4b1d860d9d269dafe78bf920398"
      [] s = "app-prod-app"               -> "15e123aa51655e006b762ab2a1c7c6de"
      [] s = "app-prod-app-app"           -> "286faa77f0376629b2f8ca990f374e4c"
      [] s = "app-prod-app-app-prod"      -> "7515161e2820e4a954b625e771450925"
      [] s = "app-prod-app-prod"          -> "52e0868037724369e5ec99d107f443e2"
      [] s = "app-prod-app-prod-app"      -> "0e6fde0efb8c6f892ce45ce26c86ab2f"
      [] s = "app-prod-app-prod-app-prod" -> "28fa3e441845cfc71fc5244e4c6d13dd"
      [] s = "app-prod-app-prod-prod"     -> "35eec91551471b88013ad6d7e18f4e48"
      [] s = "app-prod-prod"              -> "f3eee7136d5e6bb03e435bdeae21115b"
      [] s = "app-prod-prod-app"          -> "ebf07d75ebc225dc0b020cdaf037d594"
      [] s = "app-prod-prod-app-prod"     -> "d23d01cf96880deb5c29aef193edf944"
      [] s = "app-prod-prod-prod"         -> "3540f199ae3b9eaec826eca56e0d002b"
      [] s = "prod-app-app"               -> "286d4d774b7083599f4f3b3add13848c"
      [] s = "prod-app-app-prod"          -> "0059265a8fa6d32493e4d390e90c1e07"
      [] s = "prod-app-prod"              -> "a8d1ec548c16d45682b1a072aea5ca25"
      [] s = "prod-app-prod-app"          -> "ac0ee493847ac99de4def492b7d1459b"
      [] s = "prod-app-prod-app-prod"     -> "775d940474e7a5666bd428f6b1f8639d"
      [] s = "prod-app-prod-prod"         -> "675afc07d7d562569c46daa4630814b7"
      [] s = "prod-prod-app"              -> "411815ac102a836afde8aa90b7ab3b02"
      [] s = "prod-prod-app-prod"         -> "ac23c95da70b0f0fdd42dc0b0a0a1074"
      [] s = "prod-prod-prod"             -> "c8b9eb8bc6297a19524f48004ece5823"

\* variant: the AWS prefix is used for both resource types
StepActionPrefixAWSForBoth(f) == "setup-aws-credentials-"

StepActionPrefix(f) ==
    IF f = "aws" THEN "setup-aws-credentials-" ELSE "setup-credentials-"

\* s[len(s)-63:] when len(s) > 63
KeepLast(s) ==
    IF Len(s) > MaxNameLen
    THEN SubSeq(s, Len(s) - MaxNameLen + 1, Len(s))
    ELSE s

generateResourceNames(f, resourceName, envName, displayName) ==
    LET hashInput == resourceName \o "-" \o envName \o "-" \o displayName
        nameHash  == Md5Hex(hashInput)
    IN  [TaskName       |-> KeepLast(nameHash),
         StepActionName |-> KeepLast(StepActionPrefix(f) \o nameHash)]

\* tekton.GenerateNames (tekton/metadata.go): one prefix for both resource types
GenerateNames(resourceName, envName, displayName) ==
    LET hashInput == resourceName \o "-" \o envName \o "-" \o displayName
        nameHash  == Md5Hex(hashInput)
    IN  [TaskName       |-> KeepLast(nameHash),
         StepActionName |-> KeepLast("setup-credentials-" \o nameHash)]

-----------------------------------------------------------------------------
\* Labels

\* variant: an unset CLUSTER_ID is not replaced by "na"
getClusterIDWithoutDefault(env) == env

getClusterID(env) == IF env = "" THEN "na" ELSE env

buildLabels(displayName, resourceName, resourceKind, envUniqueName, clusterID) ==
    [display_name            |-> displayName,
     resource_name           |-> resourceName,
     resource_kind           |-> resourceKind,
     environment_unique_name |-> envUniqueName,
     cluster_id              |-> clusterID]

PlanLabels(p) ==
    buildLabels(p.Name, p.FacetsResourceName, p.Kind, p.EnvUniqueName,
                getClusterID(clusterEnv))

\* tekton.NewResourceMetadata (tekton/metadata.go); env is CLUSTER_ID
NewResourceMetadata(displayName, resourceName, resourceKind, envUniqueName, isCloudAction, customLabels, env) ==
    [DisplayName   |-> displayName,
     ResourceName  |-> resourceName,
     ResourceKind  |-> resourceKind,
     EnvUniqueName |-> envUniqueName,
     ClusterID     |-> IF env = "" THEN "na" ELSE env,
     IsCloudAction |-> isCloudAction,
     CustomLabels  |-> customLabels]

formatBool(b) == IF b THEN "true" ELSE "false"

\* the assignments of ResourceMetadata.Labels that follow the custom labels
AutoLabels(m) ==
    [display_name            |-> m.DisplayName,
     resource_name           |-> m.ResourceName,
     resource_kind           |-> m.ResourceKind,
     environment_unique_name |-> m.EnvUniqueName,
     cluster_id              |-> m.ClusterID,
     cloud_action            |-> formatBool(m.IsCloudAction)]

\* variant: the custom labels are written after the generated ones
LabelsCustomLast(m) == m.CustomLabels @@ AutoLabels(m)

\* ResourceMetadata.Labels: custom labels first, then the generated ones
Labels(m) == AutoLabels(m) @@ m.CustomLabels

-----------------------------------------------------------------------------
\* Object builders (the fields the reconciler depends on)

Kinds == {"StepAction", "Task"}

ObjKey(kind, namespace, name) ==
    [kind |-> kind, namespace |-> namespace, name |-> name]

buildStepAction(p, labels) ==
    [kind |-> "StepAction", name |-> p.StepActionName,
     namespace |-> p.Namespace, labels |-> labels,
     ref |-> "", annotations |-> {}, resourceVersion |-> 0]

\* variant: the Task is built without the labels
buildTaskUnlabelled(p, labels) ==
    [kind |-> "Task", name |-> p.TaskName,
     namespace |-> p.Namespace, labels |-> <<>>,
     ref |-> p.StepActionName, annotations |-> {}, resourceVersion |-> 0]

\* steps[0] of the Task is the reference to the StepAction
buildTask(p, labels) ==
    [kind |-> "Task", name |-> p.TaskName,
     namespace |-> p.Namespace, labels |-> labels,
     ref |-> p.StepActionName, annotations |-> {}, resourceVersion |-> 0]

BuildObject(kind, p, labels) ==
    IF kind = "StepAction" THEN buildStepAction(p, labels)
                           ELSE buildTask(p, labels)

KeyOf(obj) == ObjKey(obj.kind, obj.namespace, obj.name)

NameInState(kind, s) ==
    IF kind = "StepAction" THEN s.StepActionName ELSE s.TaskName

-----------------------------------------------------------------------------
\* The object store as the dynamic client presents it.  A call that does not
\* reach the store (reach = FALSE) fails and changes nothing.

StoreCreate(s, obj, reach) ==
    IF ~reach THEN [err |-> "Transport", store |-> s]
    ELSE IF KeyOf(obj) \in DOMAIN s THEN [err |-> "AlreadyExists", store |-> s]
    ELSE [err |-> "ok",
          store |-> (KeyOf(obj) :> [obj EXCEPT !.resourceVersion = 1]) @@ s]

NoObject == [labels |-> <<>>, resourceVersion |-> 0]

StoreGet(s, key, reach) ==
    IF ~reach THEN [err |-> "Transport", obj |-> NoObject]
    ELSE IF key \notin DOMAIN s THEN [err |-> "NotFound", obj |-> NoObject]
    ELSE [err |-> "ok", obj |-> s[key]]

StoreUpdate(s, obj, reach) ==
    IF ~reach THEN [err |-> "Transport", store |-> s]
    ELSE IF KeyOf(obj) \notin DOMAIN s THEN [err |-> "NotFound", store |-> s]
    ELSE IF s[KeyOf(obj)].resourceVersion # obj.resourceVersion
         THEN [err |-> "Conflict", store |-> s]
    ELSE [err |-> "ok",
          store |-> [s EXCEPT ![KeyOf(obj)] =
                        [obj EXCEPT !.resourceVersion = obj.resourceVersion + 1]]]

\* variant: the deletion of an object that is not there counts as done
StoreDeleteNotFoundOk(s, key, reach) ==
    IF ~reach THEN [err |-> "Transport", store |-> s]
    ELSE [err |-> "ok", store |-> [k \in DOMAIN s \ {key} |-> s[k]]]

StoreDelete(s, key, reach) ==
    IF ~reach THEN [err |-> "Transport", store |-> s]
    ELSE IF key \notin DOMAIN s THEN [err |-> "NotFound", store |-> s]
    ELSE [err |-> "ok", store |-> [k \in DOMAIN s \ {key} |-> s[k]]]

CallEntry(verb, key, err, rv) ==
    [verb |-> verb, kind |-> key.kind, namespace |-> key.namespace,
     name |-> key.name, err |-> err, resourceVersion |-> rv]

-----------------------------------------------------------------------------
\* Positions and diagnostics

Idle == [phase |-> "idle", i |-> 0]

At(phase, i) == [phase |-> phase, i |-> i]

NoDiag == [errors |-> <<>>, warnings |-> <<>>]

AddError(d, summary) == [d EXCEPT !.errors = Append(@, summary)]

\* variant: the warning is not added
AddWarningDropped(d, summary) == d

AddWarning(d, summary) == [d EXCEPT !.warnings = Append(@, summary)]

HasError(d) == d.errors # <<>>

NullState == [null |-> TRUE]

\* Every operation starts from rest; the history variables restart with it.
Begin(name, d) ==
    /\ pc = Idle
    /\ nOps < MaxOps
    /\ nOps' = nOps + 1
    /\ op' = name
    /\ calls' = <<>>
    /\ diag' = d
    /\ token' = 0
    /\ extLog' = {}
    /\ UNCHANGED <<flavor, clusterEnv, store, nExtWrites, nExtDeletes>>

\* The handler's locals last until it returns.
Locals(nextPc, t) ==
    IF nextPc = Idle
    THEN plan' = NullState /\ token' = 0
    ELSE plan' = plan /\ token' = t

\* A step of the running operation leaves these alone.
StepFrame ==
    UNCHANGED <<flavor, clusterEnv, op, extLog, nOps,
                nExtWrites, nExtDeletes>>

-----------------------------------------------------------------------------
\* Create: resource_tekton_action_kubernetes.go 271-348,
\*         resource_tekton_action_aws.go 289-373

DefaultNamespace == "tekton-pipelines"

\* variant: the Task is created before the StepAction it references
CreateOrderTaskFirst == <<"Task", "StepAction">>

CreateOrder == <<"StepAction", "Task">>

PlanForCreate(spec) ==
    LET ns    == IF spec.Namespace = "" THEN DefaultNamespace ELSE spec.Namespace
        names == generateResourceNames(flavor, spec.FacetsResourceName,
                                       spec.EnvUniqueName, spec.Name)
    IN  [ID                 |-> ns \o "/" \o names.TaskName,
         Name               |-> spec.Name,
         FacetsResourceName |-> spec.FacetsResourceName,
         EnvUniqueName      |-> spec.EnvUniqueName,
         Kind               |-> spec.Kind,
         Namespace          |-> ns,
         TaskName           |-> names.TaskName,
         StepActionName     |-> names.StepActionName]

\* variant: the error of the last create call is dropped
AfterCreateLastErrorDropped(err, i, kind) ==
    IF i < 2
    THEN IF err # "ok"
         THEN [pc |-> Idle, errors |-> <<"Error creating " \o kind>>,
               setState |-> FALSE]
         ELSE [pc |-> At("create", i + 1), errors |-> <<>>, setState |-> FALSE]
    ELSE [pc |-> Idle, errors |-> <<>>, setState |-> TRUE]

\* What the handler does with the result of its i-th create call.
AfterCreate(err, i, kind) ==
    IF err # "ok"
    THEN [pc |-> Idle, errors |-> <<"Error creating " \o kind>>, setState |-> FALSE]
    ELSE IF i < Len(CreateOrder)
    THEN [pc |-> At("create", i + 1), errors |-> <<>>, setState |-> FALSE]
    ELSE [pc |-> Idle, errors |-> <<>>, setState |-> TRUE]

CreateBegin(spec) ==
    /\ Begin("Create", NoDiag)
    /\ state = NullState
    /\ plan' = PlanForCreate(spec)
    /\ pc' = At("create", 1)
    /\ UNCHANGED state

CreateCall(reach) ==
    /\ pc.phase = "create"
    /\ LET kind == CreateOrder[pc.i]
           obj  == BuildObject(kind, plan, PlanLabels(plan))
           r    == StoreCreate(store, obj, reach)
           out  == AfterCreate(r.err, pc.i, kind)
       IN  /\ store' = r.store
           /\ calls' = Append(calls, CallEntry("create", KeyOf(obj), r.err, 0))
           /\ diag' = [diag EXCEPT !.errors = @ \o out.errors]
           /\ pc' = out.pc
           /\ Locals(out.pc, token)
           /\ state' = IF out.setState THEN plan ELSE state
    /\ StepFrame

-----------------------------------------------------------------------------
\* Update: resource_tekton_action_kubernetes.go 374-441 and 786-810,
\*         resource_tekton_action_aws.go 399-473 and 960-984,
\*         tekton/resource_operations.go 37-61

\* variant: the Task is updated before the StepAction
UpdateOrderTaskFirst == <<"Task", "StepAction">>

UpdateOrder == <<"StepAction", "Task">>

\* variant: the computed fields are generated again from the new plan
PlanForUpdateRegenerated(spec, s) == PlanForCreate(spec)

\* plan.StepActionName, TaskName, ID and Namespace are taken from the state
PlanForUpdate(spec, s) ==
    [ID                 |-> s.ID,
     Name               |-> spec.Name,
     FacetsResourceName |-> spec.FacetsResourceName,
     EnvUniqueName      |-> spec.EnvUniqueName,
     Kind               |-> spec.Kind,
     Namespace          |-> s.Namespace,
     TaskName           |-> s.TaskName,
     StepActionName     |-> s.StepActionName]

\* variant: the fetched resourceVersion is not copied onto the object
SetResourceVersionSkipped(obj, current) == obj

\* obj.SetResourceVersion(current.GetResourceVersion())
SetResourceVersion(obj, current) ==
    [obj EXCEPT !.resourceVersion = current]

\* variant: a rejected write is followed by a fresh get and another write
AfterUpdateRetryOnConflict(err, i, kind) ==
    IF err = "Conflict"
    THEN [pc |-> At("get", i), errors |-> <<>>, setState |-> FALSE]
    ELSE IF err # "ok"
    THEN [pc |-> Idle, errors |-> <<"Error updating " \o kind>>, setState |-> FALSE]
    ELSE IF i < 2
    THEN [pc |-> At("get", i + 1), errors |-> <<>>, setState |-> FALSE]
    ELSE [pc |-> Idle, errors |-> <<>>, setState |-> TRUE]

\* What the handler does with the result of updateResource for its i-th object.
AfterUpdate(err, i, kind) ==
    IF err # "ok"
    THEN [pc |-> Idle, errors |-> <<"Error updating " \o kind>>, setState |-> FALSE]
    ELSE IF i < Len(UpdateOrder)
    THEN [pc |-> At("get", i + 1), errors |-> <<>>, setState |-> FALSE]
    ELSE [pc |-> Idle, errors |-> <<>>, setState |-> TRUE]

UpdateBegin(spec) ==
    /\ Begin("Update", NoDiag)
    /\ state # NullState
    /\ plan' = PlanForUpdate(spec, state)
    /\ pc' = At("get", 1)
    /\ UNCHANGED state

\* updateResource, first half: fetch the current object
UpdateGet(reach) ==
    /\ pc.phase = "get"
    /\ LET kind == UpdateOrder[pc.i]
           obj  == BuildObject(kind, plan, PlanLabels(plan))
           r    == StoreGet(store, KeyOf(obj), reach)
           out  == AfterUpdate(r.err, pc.i, kind)
       IN  /\ calls' = Append(calls, CallEntry("get", KeyOf(obj), r.err,
                                                r.obj.resourceVersion))
           /\ IF r.err # "ok"
              THEN /\ diag' = [diag EXCEPT !.errors = @ \o out.errors]
                   /\ pc' = out.pc
                   /\ Locals(out.pc, token)
              ELSE /\ diag' = diag
                   /\ pc' = At("write", pc.i)
                   /\ Locals(At("write", pc.i), r.obj.resourceVersion)
    /\ UNCHANGED <<store, state>>
    /\ StepFrame

\* updateResource, second half: write with the fetched resourceVersion
UpdateWrite(reach) ==
    /\ pc.phase = "write"
    /\ LET kind == UpdateOrder[pc.i]
           obj  == SetResourceVersion(BuildObject(kind, plan, PlanLabels(plan)),
                                      token)
           r    == StoreUpdate(store, obj, reach)
           out  == AfterUpdate(r.err, pc.i, kind)
       IN  /\ store' = r.store
           /\ calls' = Append(calls, CallEntry("update", KeyOf(obj), r.err,
                                                obj.resourceVersion))
           /\ diag' = [diag EXCEPT !.errors = @ \o out.errors]
           /\ pc' = out.pc
           /\ Locals(out.pc, token)
           /\ state' = IF out.setState THEN plan ELSE state
    /\ StepFrame

-----------------------------------------------------------------------------
\* Delete: resource_tekton_action_kubernetes.go 443-468,
\*         resource_tekton_action_aws.go 475-500

\* variant: the StepAction is deleted before the Task
DeleteOrderStepActionFirst == <<"StepAction", "Task">>

DeleteOrder == <<"Task", "StepAction">>

\* variant: the error of the last delete call is dropped
AfterDeleteLastErrorDropped(err, i, kind) ==
    IF i < 2
    THEN IF err # "ok"
         THEN [pc |-> Idle, errors |-> <<"Error deleting " \o kind>>,
               removeState |-> FALSE]
         ELSE [pc |-> At("delete", i + 1), errors |-> <<>>, removeState |-> FALSE]
    ELSE [pc |-> Idle, errors |-> <<>>, removeState |-> TRUE]

\* What the handler does with the result of its i-th delete call; a Delete
\* that returns without an error removes the resource from the state.
AfterDelete(err, i, kind) ==
    IF err # "ok"
    THEN [pc |-> Idle, errors |-> <<"Error deleting " \o kind>>, removeState |-> FALSE]
    ELSE IF i < Len(DeleteOrder)
    THEN [pc |-> At("delete", i + 1), errors |-> <<>>, removeState |-> FALSE]
    ELSE [pc |-> Idle, errors |-> <<>>, removeState |-> TRUE]

DeleteBegin ==
    /\ Begin("Delete", NoDiag)
    /\ state # NullState
    /\ plan' = state
    /\ pc' = At("delete", 1)
    /\ UNCHANGED state

DeleteCall(reach) ==
    /\ pc.phase = "delete"
    /\ LET kind == DeleteOrder[pc.i]
           key  == ObjKey(kind, plan.Namespace, NameInState(kind, plan))
           r    == StoreDelete(store, key, reach)
           out  == AfterDelete(r.err, pc.i, kind)
       IN  /\ store' = r.store
           /\ calls' = Append(calls, CallEntry("delete", key, r.err, 0))
           /\ diag' = [diag EXCEPT !.errors = @ \o out.errors]
           /\ pc' = out.pc
           /\ Locals(out.pc, token)
           /\ state' = IF out.removeState THEN NullState ELSE state
    /\ StepFrame

-----------------------------------------------------------------------------
\* Read: resource_tekton_action_kubernetes.go 350-372,
\*       resource_tekton_action_aws.go 375-397

ReadBegin ==
    /\ Begin("Read", NoDiag)
    /\ state # NullState
    /\ plan' = state
    /\ pc' = At("read", 1)
    /\ UNCHANGED state

ReadCall(reach) ==
    /\ pc.phase = "read"
    /\ LET key == ObjKey("Task", plan.Namespace, plan.TaskName)
           r   == StoreGet(store, key, reach)
       IN  /\ calls' = Append(calls, CallEntry("get", key, r.err,
                                               r.obj.resourceVersion))
           /\ state' = IF r.err # "ok" THEN NullState ELSE plan
    /\ pc' = Idle
    /\ Locals(Idle, token)
    /\ UNCHANGED <<store, diag>>
    /\ StepFrame

-----------------------------------------------------------------------------
\* ImportState: resource_tekton_action_kubernetes.go 470-546,
\*              resource_tekton_action_aws.go 502-578

\* positions of "/" in the import id
Slashes(id) == {k \in 1..Len(id) : SubSeq(id, k, k) = "/"}

\* regexp ^([^/]+)/([^/]+)$
ParseImportID(id) ==
    IF Cardinality(Slashes(id)) = 1
    THEN LET k == CHOOSE j \in Slashes(id) : TRUE
         IN  IF 1 < k /\ k < Len(id)
             THEN [ok |-> TRUE, namespace |-> SubSeq(id, 1, k - 1),
                   taskName |-> SubSeq(id, k + 1, Len(id))]
             ELSE [ok |-> FALSE, namespace |-> "", taskName |-> ""]
    ELSE [ok |-> FALSE, namespace |-> "", taskName |-> ""]

\* variant: resource_kind is not looked for
RequiredImportLabelsWithoutKind ==
    {"display_name", "resource_name", "environment_unique_name"}

RequiredImportLabels ==
    {"display_name", "resource_name", "resource_kind", "environment_unique_name"}

\* variant: the StepAction name is derived with the Kubernetes prefix for
\* both resource types
ImportedStateOnePrefix(namespace, taskName, labels) ==
    [ID                 |-> namespace \o "/" \o taskName,
     Name               |-> labels["display_name"],
     FacetsResourceName |-> labels["resource_name"],
     EnvUniqueName      |-> Null,
     Kind               |-> Null,
     Namespace          |-> namespace,
     TaskName           |-> taskName,
     StepActionName     |-> "setup-credentials-" \o taskName]

ImportedState(namespace, taskName, labels) ==
    [ID                 |-> namespace \o "/" \o taskName,
     Name               |-> labels["display_name"],
     FacetsResourceName |-> labels["resource_name"],
     EnvUniqueName      |-> Null,
     Kind               |-> Null,
     Namespace          |-> namespace,
     TaskName           |-> taskName,
     StepActionName     |-> StepActionPrefix(flavor) \o taskName]

ImportIDs ==
    { k.namespace \o "/" \o k.name : k \in {j \in DOMAIN store : j.kind = "Task"} }
    \cup { "tekton-pipelines", "/restart", "tekton-pipelines/a/b",
           "ci/0123456789abcdef0123456789abcdef" }

ImportBegin(id) ==
    /\ state = NullState
    /\ LET m == ParseImportID(id)
       IN  IF m.ok
           THEN /\ Begin("Import", NoDiag)
                /\ plan' = [ID |-> id, Namespace |-> m.namespace,
                            TaskName |-> m.taskName]
                /\ pc' = At("import", 1)
           ELSE /\ Begin("Import", AddError(NoDiag, "Invalid Import ID"))
                /\ plan' = NullState
                /\ pc' = Idle
    /\ UNCHANGED state

ImportCall(reach) ==
    /\ pc.phase = "import"
    /\ LET key == ObjKey("Task", plan.Namespace, plan.TaskName)
           r   == StoreGet(store, key, reach)
       IN  /\ calls' = Append(calls, CallEntry("get", key, r.err,
                                               r.obj.resourceVersion))
           /\ IF r.err # "ok"
              THEN /\ diag' = AddError(diag, "Error importing resource")
                   /\ state' = state
              ELSE IF ~(RequiredImportLabels \subseteq DOMAIN r.obj.labels)
              THEN /\ diag' = AddError(diag, "Error importing resource")
                   /\ state' = state
              ELSE /\ diag' = AddWarning(diag, "Partial Import")
                   /\ state' = ImportedState(plan.Namespace, plan.TaskName,
                                             r.obj.labels)
    /\ pc' = Idle
    /\ Locals(Idle, token)
    /\ UNCHANGED store
    /\ StepFrame

-----------------------------------------------------------------------------
\* The second client

\* the object the running Update has fetched and not yet written
InWindow(key) ==
    /\ pc.phase = "write"
    /\ key = ObjKey(UpdateOrder[pc.i], plan.Namespace,
                    NameInState(UpdateOrder[pc.i], plan))

ExtEvent(what, key) == [what |-> what, key |-> key, window |-> InWindow(key)]

LogExt(what, key) ==
    extLog' = IF pc = Idle THEN extLog ELSE extLog \cup {ExtEvent(what, key)}

ExtModify(key) ==
    /\ key \in DOMAIN store
    /\ nExtWrites + nExtDeletes < MaxExt
    /\ nExtWrites' = nExtWrites + 1
    /\ store' = [store EXCEPT ![key].annotations = @ \cup {"edited"},
                              ![key].resourceVersion = @ + 1]
    /\ LogExt("modify", key)
    /\ UNCHANGED <<flavor, clusterEnv, state, op, pc, plan, token, calls, diag,
                   nOps, nExtDeletes>>

ExtDelete(key) ==
    /\ key \in DOMAIN store
    /\ nExtWrites + nExtDeletes < MaxExt
    /\ nExtDeletes' = nExtDeletes + 1
    /\ store' = [k \in DOMAIN store \ {key} |-> store[k]]
    /\ LogExt("delete", key)
    /\ UNCHANGED <<flavor, clusterEnv, state, op, pc, plan, token, calls, diag,
                   nOps, nExtWrites>>

-----------------------------------------------------------------------------
\* The system

\* The objects a successful Create of spec leaves in the store.
CreatedObjects(spec) ==
    LET p == PlanForCreate(spec)
        o == [k \in Kinds |-> [BuildObject(k, p, PlanLabels(p))
                                  EXCEPT !.resourceVersion = 1]]
    IN  [key \in {KeyOf(o[k]) : k \in Kinds} |->
            IF key.kind = "Task" THEN o["Task"] ELSE o["StepAction"]]

\* The resource starts without state.  The cluster is either empty or holds
\* the two objects an earlier run created for BaseSpec and whose state was
\* not kept, which is the situation ImportState is for.
Init ==
    /\ \E p \in Processes : flavor = p.flavor /\ clusterEnv = p.clusterEnv
    /\ store \in {<<>>, CreatedObjects(BaseSpec)}
    /\ state = NullState
    /\ op = "none"
    /\ pc = Idle
    /\ plan = NullState
    /\ token = 0
    /\ calls = <<>>
    /\ diag = NoDiag
    /\ extLog = {}
    /\ nOps = 0
    /\ nExtWrites = 0
    /\ nExtDeletes = 0

Next ==
    \/ \E spec \in Specs : CreateBegin(spec)
    \/ \E reach \in BOOLEAN : CreateCall(reach)
    \/ \E spec \in Specs : UpdateBegin(spec)
    \/ \E reach \in BOOLEAN : UpdateGet(reach)
    \/ \E reach \in BOOLEAN : UpdateWrite(reach)
    \/ DeleteBegin
    \/ \E reach \in BOOLEAN : DeleteCall(reach)
    \/ ReadBegin
    \/ \E reach \in BOOLEAN : ReadCall(reach)
    \/ \E id \in ImportIDs : ImportBegin(id)
    \/ \E reach \in BOOLEAN : ImportCall(reach)
    \/ \E key \in DOMAIN store : ExtModify(key)
    \/ \E key \in DOMAIN store : ExtDelete(key)

Spec == Init /\ [][Next]_vars

-----------------------------------------------------------------------------
\* Adoption of existing objects: the resource has no state, the cluster holds
\* the objects of an earlier Create (or nothing), and the second client may
\* have rewritten their labels before ImportState reads them.

LabelKeys ==
    {"display_name", "resource_name", "resource_kind",
     "environment_unique_name", "cluster_id"}

\* the labels the second client leaves on an object: none, or all but one
RelabelChoices == {{}} \cup {LabelKeys \ {l} : l \in LabelKeys}

\* the second client replaces the labels of an object by a part of them
ExtRelabel(key, keep) ==
    /\ key \in DOMAIN store
    /\ keep \subseteq DOMAIN store[key].labels
    /\ keep # DOMAIN store[key].labels
    /\ nExtWrites + nExtDeletes < MaxExt
    /\ nExtWrites' = nExtWrites + 1
    /\ store' = [store EXCEPT
                    ![key].labels = [l \in keep |-> store[key].labels[l]],
                    ![key].resourceVersion = @ + 1]
    /\ LogExt("relabel", key)
    /\ UNCHANGED <<flavor, clusterEnv, state, op, pc, plan, token, calls, diag,
                   nOps, nExtDeletes>>

ImportInit ==
    /\ \E p \in Processes : flavor = p.flavor /\ clusterEnv = p.clusterEnv
    /\ store \in {<<>>} \cup {CreatedObjects(spec) : spec \in Specs}
    /\ state = NullState
    /\ op = "none"
    /\ pc = Idle
    /\ plan = NullState
    /\ token = 0
    /\ calls = <<>>
    /\ diag = NoDiag
    /\ extLog = {}
    /\ nOps = 0
    /\ nExtWrites = 0
    /\ nExtDeletes = 0

ImportNext ==
    \/ \E id \in ImportIDs : ImportBegin(id)
    \/ \E reach \in BOOLEAN : ImportCall(reach)
    \/ DeleteBegin
    \/ \E reach \in BOOLEAN : DeleteCall(reach)
    \/ \E key \in DOMAIN store : \E keep \in RelabelChoices : ExtRelabel(key, keep)
    \/ \E key \in DOMAIN store : ExtDelete(key)

ImportSpec == ImportInit /\ [][ImportNext]_vars

-----------------------------------------------------------------------------
\* Name generation on its own.  Two resources are declared with the argument
\* triples plan.a and plan.b; a generator is applied to both and state holds
\* the names it returned.

NameArgs ==
    [resourceName : NameParts, envName : NameParts, displayName : NameParts]

NamesInit ==
    /\ \E p \in Processes : flavor = p.flavor /\ clusterEnv = p.clusterEnv
    /\ plan \in [a : NameArgs, b : NameArgs]
    /\ state = NullState
    /\ store = <<>>
    /\ op = "none"
    /\ pc = At("names", 1)
    /\ token = 0
    /\ calls = <<>>
    /\ diag = NoDiag
    /\ extLog = {}
    /\ nOps = 0
    /\ nExtWrites = 0
    /\ nExtDeletes = 0

NamesFrame ==
    UNCHANGED <<flavor, clusterEnv, store, plan, token, calls, diag, extLog,
                nOps, nExtWrites, nExtDeletes>>

\* the generator of the resource's own file
ApplyGenerateResourceNames ==
    /\ pc = At("names", 1)
    /\ op' = "generateResourceNames"
    /\ state' = [r \in {"a", "b"} |->
                    generateResourceNames(flavor, plan[r].resourceName,
                                          plan[r].envName, plan[r].displayName)]
    /\ pc' = Idle
    /\ NamesFrame

\* the generator of the tekton package
ApplyGenerateNames ==
    /\ pc = At("names", 1)
    /\ op' = "GenerateNames"
    /\ state' = [r \in {"a", "b"} |->
                    GenerateNames(plan[r].resourceName, plan[r].envName,
                                  plan[r].displayName)]
    /\ pc' = Idle
    /\ NamesFrame

NamesNext ==
    \/ ApplyGenerateResourceNames
    \/ ApplyGenerateNames

NamesSpec == NamesInit /\ [][NamesNext]_vars

-----------------------------------------------------------------------------
\* Label building on its own (tekton/models.go 330-364): the plan carries the
\* custom labels of the configuration, and state holds the label map handed
\* to the builder of each object.

CustomKeys ==
    {"team", "display_name", "resource_kind", "cluster_id", "cloud_action"}

CustomLabelMaps == UNION {[keys -> {"custom"}] : keys \in SUBSET CustomKeys}

LabelsInit ==
    /\ \E p \in Processes : flavor = p.flavor /\ clusterEnv = p.clusterEnv
    /\ \E spec \in Specs : \E custom \in CustomLabelMaps :
          plan = [Name               |-> spec.Name,
                  FacetsResourceName |-> spec.FacetsResourceName,
                  EnvUniqueName      |-> spec.EnvUniqueName,
                  Kind               |-> spec.Kind,
                  Labels             |-> custom]
    /\ state = NullState
    /\ store = <<>>
    /\ op = "none"
    /\ pc = At("labels", 1)
    /\ token = 0
    /\ calls = <<>>
    /\ diag = NoDiag
    /\ extLog = {}
    /\ nOps = 0
    /\ nExtWrites = 0
    /\ nExtDeletes = 0

\* metadata := NewResourceMetadata(...); each builder gets
\* metadata.LabelsAsInterface()
ApplyLabels ==
    /\ pc = At("labels", 1)
    /\ op' = "Labels"
    /\ LET metadata == NewResourceMetadata(plan.Name, plan.FacetsResourceName,
                                           plan.Kind, plan.EnvUniqueName,
                                           flavor = "aws", plan.Labels,
                                           clusterEnv)
       IN  state' = [k \in Kinds |-> Labels(metadata)]
    /\ pc' = Idle
    /\ UNCHANGED <<flavor, clusterEnv, store, plan, token, calls, diag, extLog,
                   nOps, nExtWrites, nExtDeletes>>

LabelsNext == ApplyLabels

LabelsSpec == LabelsInit /\ [][LabelsNext]_vars

-----------------------------------------------------------------------------
\* Properties

Last(seq) == seq[Len(seq)]

CallKey(c) == ObjKey(c.kind, c.namespace, c.name)

StateKey(kind, s) == ObjKey(kind, s.Namespace, NameInState(kind, s))

Finished(name) == op = name /\ pc = Idle

\* C1: as long as no other client has deleted an object, every Task in the
\* store has the StepAction referenced by its first step in the store too.
C1_TaskReferenceExists ==
    nExtDeletes = 0 =>
        \A k \in DOMAIN store :
            k.kind = "Task" =>
                ObjKey("StepAction", k.namespace, store[k].ref) \in DOMAIN store

\* a Create has returned without error and its Task and StepAction are stored
C1_Witness ==
    /\ Finished("Create") /\ ~HasError(diag) /\ state # NullState
    /\ nExtDeletes = 0
    /\ StateKey("Task", state) \in DOMAIN store
    /\ store[StateKey("Task", state)].ref = state.StepActionName
    /\ StateKey("StepAction", state) \in DOMAIN store

\* C2, first part: each write of an Update carries the resourceVersion that
\* the get issued just before it returned for the same object.
C2_TokenFromOwnGet ==
    op = "Update" =>
        \A j \in 1..Len(calls) :
            calls[j].verb = "update" =>
                /\ j > 1
                /\ calls[j - 1].verb = "get"
                /\ calls[j - 1].err = "ok"
                /\ CallKey(calls[j - 1]) = CallKey(calls[j])
                /\ calls[j - 1].resourceVersion = calls[j].resourceVersion

\* the object about to be written no longer has the fetched resourceVersion
StaleAtWrite ==
    /\ pc.phase = "write"
    /\ LET key == StateKey(UpdateOrder[pc.i], plan)
       IN  \/ key \notin DOMAIN store
           \/ store[key].resourceVersion # token

\* C2, second part: a write issued while the store's resourceVersion differs
\* from the fetched one changes nothing in the store, ends the Update with an
\* error, leaves the recorded state as it was, and is the Update's last call.
C2_StaleWriteStep ==
    (StaleAtWrite /\ calls' # calls) =>
        /\ store' = store
        /\ HasError(diag')
        /\ state' = state
        /\ pc' = Idle
        /\ Len(calls') = Len(calls) + 1
        /\ Last(calls').err # "ok"

\* C2: an Update writes each object with the token of its own preceding get,
\* and a write whose token is stale is rejected, reported, and not repeated.
C2_OptimisticLock == [](C2_TokenFromOwnGet) /\ [][C2_StaleWriteStep]_vars

\* an Update has ended on a write that the store rejected as a conflict
C2_Witness ==
    /\ Finished("Update") /\ HasError(diag)
    /\ Len(calls) >= 2
    /\ Last(calls).verb = "update" /\ Last(calls).err = "Conflict"
    /\ calls[Len(calls) - 1].resourceVersion = Last(calls).resourceVersion

\* modifications the second client made to the resource's objects during
\* the Update
ModifiedDuringUpdate ==
    {e \in extLog : e.what = "modify" /\ e.key \in {StateKey(k, state) : k \in Kinds}}

NotOverwritten(key) ==
    key \in DOMAIN store => "edited" \in store[key].annotations

\* every call of the operation reached the store
AllCallsReached == \A j \in 1..Len(calls) : calls[j].err # "Transport"

\* C3 as stated: whenever the second client modified the Task or the
\* StepAction while the Update was in progress (and every call of the Update
\* reached the store), the Update ended with a conflict error and the
\* modification is still in the store.
C3_AnyModificationDetected ==
    (Finished("Update") /\ ModifiedDuringUpdate # {} /\ AllCallsReached) =>
        /\ HasError(diag)
        /\ calls # <<>> /\ Last(calls).err = "Conflict"
        /\ \A e \in ModifiedDuringUpdate : NotOverwritten(e.key)

\* C3 amended: when the second client modified an object between the
\* Update's get of that object and its write of it, the Update ended with an
\* error at that write (the store's conflict error, unless the call did not
\* reach the store or the object was deleted as well) and the modification
\* is still in the store.
C3_ModificationInWindowDetected ==
    Finished("Update") =>
        \A e \in ModifiedDuringUpdate :
            e.window =>
                /\ HasError(diag)
                /\ calls # <<>>
                /\ Last(calls).verb = "update"
                /\ CallKey(Last(calls)) = e.key
                /\ \/ Last(calls).err = "Conflict"
                   \/ Last(calls).err = "Transport"
                   \/ /\ Last(calls).err = "NotFound"
                      /\ \E d \in extLog : d.what = "delete" /\ d.key = e.key
                /\ NotOverwritten(e.key)

\* an Update ended with a conflict after a modification between get and write
C3_Witness ==
    /\ Finished("Update") /\ HasError(diag)
    /\ \E e \in ModifiedDuringUpdate :
          /\ e.window
          /\ e.key \in DOMAIN store
          /\ "edited" \in store[e.key].annotations
          /\ Last(calls).err = "Conflict"

ExpectedUpdateCalls ==
    << [verb |-> "get",    kind |-> "StepAction"],
       [verb |-> "update", kind |-> "StepAction"],
       [verb |-> "get",    kind |-> "Task"],
       [verb |-> "update", kind |-> "Task"] >>

\* C4: the calls of an Update are a prefix of get(StepAction),
\* update(StepAction), get(Task), update(Task); only the last call issued can
\* have failed, and after a failed call the Update is over.
C4_UpdateCallOrder ==
    op = "Update" =>
        /\ Len(calls) <= Len(ExpectedUpdateCalls)
        /\ \A j \in 1..Len(calls) :
              /\ calls[j].verb = ExpectedUpdateCalls[j].verb
              /\ calls[j].kind = ExpectedUpdateCalls[j].kind
              /\ j < Len(calls) => calls[j].err = "ok"
        /\ (calls # <<>> /\ Last(calls).err # "ok") => pc = Idle

\* an Update has issued all four calls
C4_Witness ==
    /\ Finished("Update")
    /\ Len(calls) = 4
    /\ \A j \in 1..4 : calls[j].err = "ok"

\* C5: a Delete first issues the deletion of the Task, and issues the
\* deletion of the StepAction only after the Task deletion has succeeded.
C5_DeleteCallOrder ==
    op = "Delete" =>
        /\ Len(calls) <= 2
        /\ Len(calls) >= 1 =>
              /\ calls[1].verb = "delete" /\ calls[1].kind = "Task"
        /\ Len(calls) = 2 =>
              /\ calls[1].err = "ok"
              /\ calls[2].verb = "delete" /\ calls[2].kind = "StepAction"

\* a Delete has issued both deletions
C5_Witness ==
    /\ Finished("Delete")
    /\ Len(calls) = 2
    /\ calls[2].kind = "StepAction" /\ calls[2].err = "ok"
    /\ state = NullState

CreateFailedAtTask ==
    /\ Finished("Create")
    /\ Len(calls) = 2
    /\ calls[1].kind = "StepAction" /\ calls[1].err = "ok"
    /\ calls[2].kind = "Task" /\ calls[2].err # "ok"

\* C6: a Create whose StepAction creation succeeded and whose Task creation
\* failed reports an error, has issued no delete, leaves the StepAction in
\* the store and records no state.
C6_CreatePartialFailure ==
    CreateFailedAtTask =>
        /\ HasError(diag)
        /\ state = NullState
        /\ \A j \in 1..Len(calls) : calls[j].verb = "create"
        /\ nExtDeletes = 0 => CallKey(calls[1]) \in DOMAIN store

\* a Create has failed at the Task and its StepAction is in the store
C6_Witness ==
    /\ CreateFailedAtTask
    /\ CallKey(calls[1]) \in DOMAIN store
    /\ CallKey(calls[2]) \notin DOMAIN store

DeleteFailedAtStepAction ==
    /\ Finished("Delete")
    /\ Len(calls) = 2
    /\ calls[1].kind = "Task" /\ calls[1].err = "ok"
    /\ calls[2].kind = "StepAction" /\ calls[2].err # "ok"

\* C7: a Delete whose Task deletion succeeded and whose StepAction deletion
\* failed reports an error, leaves the StepAction in the store, and has not
\* created the Task again.
C7_DeletePartialFailure ==
    DeleteFailedAtStepAction =>
        /\ HasError(diag)
        /\ nExtDeletes = 0 => CallKey(calls[2]) \in DOMAIN store
        /\ CallKey(calls[1]) \notin DOMAIN store
        /\ \A j \in 1..Len(calls) : calls[j].verb = "delete"

\* a Delete has removed the Task and failed to remove the StepAction
C7_Witness ==
    /\ DeleteFailedAtStepAction
    /\ nExtDeletes = 0
    /\ CallKey(calls[2]) \in DOMAIN store
    /\ state # NullState

\* C8 as stated: after an Update has returned, with or without an error, the
\* stored Task and StepAction carry the same label set.
C8_LabelsAlwaysTogether ==
    (/\ Finished("Update")
     /\ StateKey("Task", state) \in DOMAIN store
     /\ StateKey("StepAction", state) \in DOMAIN store) =>
        store[StateKey("Task", state)].labels =
            store[StateKey("StepAction", state)].labels

\* C8 amended: after an Update has returned without an error, the stored
\* Task and StepAction both carry the label set built from the new spec; an
\* Update that returned an error has not written the Task, although it may
\* already have written the StepAction.
C8_LabelsTogetherOnSuccess ==
    Finished("Update") =>
        IF ~HasError(diag)
        THEN \A k \in Kinds :
                StateKey(k, state) \in DOMAIN store =>
                    store[StateKey(k, state)].labels = PlanLabels(state)
        ELSE \A j \in 1..Len(calls) :
                ~(calls[j].verb = "update" /\ calls[j].kind = "Task"
                  /\ calls[j].err = "ok")

\* an Update to the spec of kind "job" has returned without error and both
\* objects carry its labels
C8_Witness ==
    /\ Finished("Update") /\ ~HasError(diag)
    /\ state.Kind = "job"
    /\ \A k \in Kinds :
          /\ StateKey(k, state) \in DOMAIN store
          /\ store[StateKey(k, state)].labels.resource_kind = "job"

Identity(s) == <<s.ID, s.Namespace, s.TaskName, s.StepActionName>>

\* C9, first part: no step of an Update changes the recorded id, namespace,
\* task name or StepAction name.
C9_IdentityKeptStep ==
    (op' = "Update" /\ state # NullState) =>
        /\ state' # NullState
        /\ Identity(state') = Identity(state)

\* C9, second part: every call of an Update addresses the object whose
\* namespace and name are recorded in the state.
C9_AddressesRecordedNames ==
    op = "Update" =>
        /\ state # NullState
        /\ \A j \in 1..Len(calls) : CallKey(calls[j]) = StateKey(calls[j].kind, state)

\* C9: Updates keep the recorded identity and address the objects of exactly
\* the recorded names, whatever the new spec.
C9_IdentityImmutable == [](C9_AddressesRecordedNames) /\ [][C9_IdentityKeptStep]_vars

\* an Update to a spec that would generate other names has returned without
\* error, and the recorded names are still the old ones
C9_Witness ==
    /\ Finished("Update") /\ ~HasError(diag)
    /\ Len(calls) = 4
    /\ state.TaskName #
          generateResourceNames(flavor, state.FacetsResourceName,
                                state.EnvUniqueName, state.Name).TaskName
    /\ StateKey("Task", state) \in DOMAIN store

\* the two objects Create builds for spec are in the store
BothObjectsStored(spec) ==
    LET p == PlanForCreate(spec)
    IN  \A k \in Kinds :
            /\ StateKey(k, p) \in DOMAIN store
            /\ store[StateKey(k, p)].labels = PlanLabels(p)

\* C10: a Create that found both objects of its spec in the store, and all of
\* whose calls reached the store, returns without error and leaves the two
\* objects in the store.
C10_CreateIdempotent ==
    \A spec \in Specs :
        (/\ Finished("Create")
         /\ calls # <<>>
         /\ CallKey(calls[1]) = StateKey("StepAction", PlanForCreate(spec))
         /\ \A j \in 1..Len(calls) : calls[j].err # "Transport"
         /\ BothObjectsStored(spec)) =>
            ~HasError(diag)

\* the last step ended a Read
ReadReturned == pc.phase = "read" /\ pc' = Idle

\* C11, as a step: the step that ends a Read leaves the store as it was and
\* has issued exactly one call, a get of the recorded Task; if the Task is not
\* in the store the resource is dropped from the state, whether or not its
\* StepAction is still there, and if the Task is in the store the recorded
\* state is kept unchanged.
C11_ReadStep ==
    ReadReturned =>
        /\ store' = store
        /\ Len(calls') = 1
        /\ calls'[1].verb = "get"
        /\ CallKey(calls'[1]) = StateKey("Task", state)
        /\ IF StateKey("Task", state) \in DOMAIN store
           THEN state' = state
           ELSE state' = NullState

\* C11: Read probes the Task only, never writes, drops the resource when the
\* Task is absent and keeps the recorded state when the Task is present.
C11_ReadProbesTaskOnly == [][C11_ReadStep]_vars

\* C12: when an operation has returned and one of its store calls failed, it
\* has reported an error, except that a Read whose get of the Task was
\* answered not-found reports none and drops the resource instead.
C12_StoreErrorsReported ==
    (pc = Idle /\ \E j \in 1..Len(calls) : calls[j].err # "ok") =>
        \/ HasError(diag)
        \/ /\ op = "Read"
           /\ Last(calls).err = "NotFound"
           /\ state = NullState

\* the last step ended an ImportState
ImportReturned == op' = "Import" /\ pc' = Idle /\ (pc # Idle \/ nOps' # nOps)

\* the label keys of the Task the ImportState asked for ({} when it asked for
\* none or the Task is not in the store)
ImportedTaskLabelKeys ==
    IF calls' # <<>> /\ CallKey(calls'[1]) \in DOMAIN store
    THEN DOMAIN store[CallKey(calls'[1])].labels
    ELSE {}

ImportRefused == HasError(diag') /\ state' = NullState

\* C13 as stated: an ImportState whose Task does not carry all five of
\* display_name, resource_name, resource_kind, environment_unique_name and
\* cluster_id ends with an error and records no state.
C13_ImportNeedsFiveLabels ==
    [][(ImportReturned /\ ~(LabelKeys \subseteq ImportedTaskLabelKeys))
          => ImportRefused]_vars

\* C13 amended: an ImportState whose Task does not carry all four of
\* display_name, resource_name, resource_kind and environment_unique_name
\* ends with an error and records no state; cluster_id is not asked for.
C13_ImportNeedsFourLabels ==
    [][(ImportReturned /\ ~((LabelKeys \ {"cluster_id"}) \subseteq ImportedTaskLabelKeys))
          => ImportRefused]_vars

\* an ImportState has been refused because the Task it fetched lacks one of
\* the four labels
C13_Witness ==
    /\ Finished("Import") /\ HasError(diag) /\ state = NullState
    /\ Len(calls) = 1 /\ calls[1].err = "ok"
    /\ CallKey(calls[1]) \in DOMAIN store
    /\ "cluster_id" \in DOMAIN store[CallKey(calls[1])].labels
    /\ "resource_kind" \notin DOMAIN store[CallKey(calls[1])].labels

\* C14, first part: an ImportState that succeeds records the id, namespace,
\* task name and StepAction name that the Create of some spec records.
C14_ImportStep ==
    (ImportReturned /\ ~HasError(diag')) =>
        /\ state' # NullState
        /\ \E spec \in Specs :
              /\ CallKey(calls'[1]) = StateKey("Task", PlanForCreate(spec))
              /\ Identity(state') = Identity(PlanForCreate(spec))

\* C14, second part: the calls of a Delete of the imported resource address
\* the Task and the StepAction that the Create of one spec writes.
C14_DeleteAddressesCreated ==
    op = "Delete" =>
        \E spec \in Specs :
            \A j \in 1..Len(calls) :
                CallKey(calls[j]) = StateKey(DeleteOrder[j], PlanForCreate(spec))

\* C14: for each resource type, importing the Task of a created resource
\* records the identity Create recorded, and a following Delete addresses
\* exactly the two created objects.
C14_ImportRoundTrip == [](C14_DeleteAddressesCreated) /\ [][C14_ImportStep]_vars

\* the AWS resource has been imported and deleted, and nothing is left of it
C14_Witness ==
    /\ flavor = "aws"
    /\ Finished("Delete") /\ ~HasError(diag)
    /\ Len(calls) = 2
    /\ nExtDeletes = 0
    /\ store = <<>>

\* the import id has the form namespace/taskName
WellFormedID(id) ==
    \E k \in 2..(Len(id) - 1) :
        /\ SubSeq(id, k, k) = "/"
        /\ \A j \in 1..Len(id) : j # k => SubSeq(id, j, j) # "/"

\* C15, as a step: an ImportState that returns without error has added
\* exactly one warning and recorded the id, display name, resource name,
\* namespace, task name and StepAction name and nothing else; one whose id is
\* malformed, whose Task is absent or whose Task lacks a label it asks for
\* returns with an error; and one that returns with an error records no
\* state.  Neither has changed the store or issued a call other than a get.
C15_ImportStep ==
    ImportReturned =>
        /\ store' = store
        /\ \A j \in 1..Len(calls') : calls'[j].verb = "get"
        /\ (\/ calls' = <<>>
            \/ CallKey(calls'[1]) \notin DOMAIN store
            \/ ~((LabelKeys \ {"cluster_id"}) \subseteq ImportedTaskLabelKeys))
              => HasError(diag')
        /\ IF HasError(diag')
           THEN state' = NullState
           ELSE /\ Len(diag'.warnings) = 1
                /\ state' # NullState
                /\ state'.ID = state'.Namespace \o "/" \o state'.TaskName
                /\ CallKey(calls'[1]) = StateKey("Task", state')
                /\ state'.Name = store[CallKey(calls'[1])].labels["display_name"]
                /\ state'.FacetsResourceName =
                       store[CallKey(calls'[1])].labels["resource_name"]
                /\ state'.EnvUniqueName = Null
                /\ state'.Kind = Null

\* C15, ids: an ImportState issues a call only when its id is well formed.
C15_MalformedIDRefused ==
    (op = "Import" /\ calls # <<>>) =>
        WellFormedID(calls[1].namespace \o "/" \o calls[1].name)

\* C15: a successful ImportState reports one warning and no error and
\* records only the identity fields; a failed one reports an error, records
\* nothing and has written nothing.
C15_ImportOutcome == [](C15_MalformedIDRefused) /\ [][C15_ImportStep]_vars

\* an ImportState has succeeded with its warning
C15_Witness ==
    /\ Finished("Import") /\ ~HasError(diag)
    /\ diag.warnings = <<"Partial Import">>
    /\ state # NullState
    /\ state.Kind = Null

NamesGenerated == pc = Idle /\ op \in {"generateResourceNames", "GenerateNames"}

\* C16: two resources declared with different (resourceName, envName,
\* displayName) triples, whatever characters the fields contain, get
\* different task names and different StepAction names.
C16_DistinctTriplesDistinctNames ==
    (NamesGenerated /\ plan.a # plan.b) =>
        /\ state.a.TaskName # state.b.TaskName
        /\ state.a.StepActionName # state.b.StepActionName

HexDigits == "0123456789abcdef"

IsLowerHex32(s) ==
    /\ Len(s) = 32
    /\ \A k \in 1..32 : \E d \in 1..16 : SubSeq(s, k, k) = SubSeq(HexDigits, d, d)

\* what C17 says of the names generated for one triple
C17_NamesOf(args, names) ==
    /\ names.TaskName =
          Md5Hex(args.resourceName \o "-" \o args.envName \o "-" \o args.displayName)
    /\ IsLowerHex32(names.TaskName)
    /\ (op = "GenerateNames" \/ flavor = "kubernetes") =>
          names.StepActionName = "setup-credentials-" \o names.TaskName
    /\ Len(names.TaskName) <= 63
    /\ Len(names.StepActionName) <= 63
    /\ Len(names.StepActionName) > 32
    /\ SubSeq(names.StepActionName, Len(names.StepActionName) - 31,
              Len(names.StepActionName)) = names.TaskName

LabelsBuilt == pc = Idle /\ op = "Labels"

\* the value each of the five generated labels is to have
ExpectedAutoValue(key) ==
    CASE key = "display_name"            -> plan.Name
      [] key = "resource_name"           -> plan.FacetsResourceName
      [] key = "resource_kind"           -> plan.Kind
      [] key = "environment_unique_name" -> plan.EnvUniqueName
      [] key = "cluster_id"              -> IF clusterEnv = "" THEN "na" ELSE clusterEnv

\* C18: whatever the custom labels are, the label map of each object has, under
\* each of the five generated keys, the generated value and not the custom one.
C18_GeneratedLabelsWin ==
    LabelsBuilt =>
        \A k \in Kinds : \A key \in LabelKeys :
            /\ key \in DOMAIN state[k]
            /\ state[k][key] = ExpectedAutoValue(key)
            /\ state[k][key] # "custom"

\* custom labels under display_name and cluster_id have been given, and the
\* label maps carry the generated values
C18_Witness ==
    /\ LabelsBuilt
    /\ {"display_name", "cluster_id"} \subseteq DOMAIN plan.Labels
    /\ plan.Labels["display_name"] = "custom"
    /\ \A k \in Kinds :
          /\ state[k]["display_name"] = plan.Name
          /\ state[k]["cluster_id"] = "na"

\* C19: the label map of each object is the custom labels overwritten by the
\* five generated keys: every custom label under another key is there with
\* its custom value, and there is no key besides the custom keys and the five.
C19_CustomThenFiveGenerated ==
    LabelsBuilt =>
        \A k \in Kinds :
            /\ DOMAIN state[k] = DOMAIN plan.Labels \cup LabelKeys
            /\ \A key \in DOMAIN plan.Labels \ LabelKeys :
                  state[k][key] = plan.Labels[key]

\* a successful create or update call has just been made
ObjectWritten ==
    /\ Len(calls') = Len(calls) + 1
    /\ Last(calls').verb \in {"create", "update"}
    /\ Last(calls').err = "ok"

\* C20: the object that a successful create or update call of Create or
\* Update leaves in the store has a cluster_id label, whose value is the
\* CLUSTER_ID of the process when that is set and not empty and "na" otherwise.
C20_ClusterIDLabelled ==
    [][ObjectWritten =>
          LET obj == store'[CallKey(Last(calls'))]
          IN  /\ "cluster_id" \in DOMAIN obj.labels
              /\ obj.labels["cluster_id"] =
                    IF clusterEnv = "" THEN "na" ELSE clusterEnv]_vars

\* an Update has written both objects while CLUSTER_ID is not set, and both
\* carry the label "na"
C20_Witness ==
    /\ clusterEnv = ""
    /\ Finished("Update") /\ ~HasError(diag)
    /\ \A k \in Kinds :
          /\ StateKey(k, state) \in DOMAIN store
          /\ store[StateKey(k, state)].labels["cluster_id"] = "na"

----------------------------------------------------------------------------
\* Resolution of the provider's AWS block (internal/aws/client.go).

\* a null types.Object and a nil pointer
NullObject == [null |-> TRUE]

NilPtr == [nil |-> TRUE]

\* types.Int64: null, or a value
NullInt64 == [null |-> TRUE, value |-> 0]

Int64Value(n) == [null |-> FALSE, value |-> n]

DefaultDuration == 3600

MinDuration == 900

MaxDuration == 43200

MinARNLen == 20

ARNPrefix == "arn:aws:iam::"

DefaultSessionName == "terraform-provider-session"

Regions == {Null, "", "us-east-1"}

AccessKeys == {Null, "", "AKIAEXAMPLE"}

SecretKeys == {Null, "", "wJalrEXAMPLEKEY"}

\* absent, empty, 16 characters with the prefix, 29 characters without it,
\* and a well-formed one
RoleARNs ==
    {Null, "", "arn:aws:iam::1:r", "arn:aws:s3:::my-bucket/object",
     "arn:aws:iam::123456789012:role/my-role"}

SessionNames == {Null, "", "test-session"}

ExternalIDs == {Null, "my-external-id"}

Durations ==
    {NullInt64} \cup {Int64Value(n) : n \in {899, 900, 3600, 43200, 43201}}

AssumeRoleBlocks ==
    {NullObject} \cup
    [role_arn : RoleARNs, session_name : SessionNames,
     external_id : ExternalIDs, duration : Durations]

ProviderAWSConfigs ==
    {NullObject} \cup
    [region : Regions, access_key : AccessKeys, secret_key : SecretKeys,
     assume_role : AssumeRoleBlocks]

Resolved(cfg) == [config |-> cfg, err |-> ""]

Failed(msg) == [config |-> NilPtr, err |-> msg]

hasInlineCreds(c) ==
    /\ c.access_key # Null /\ c.access_key # ""
    /\ c.secret_key # Null /\ c.secret_key # ""

hasAssumeRole(c) == c.assume_role # NullObject

\* variant: the length of the ARN is not checked
ValidRoleARNPrefixOnly(arn) ==
    Len(arn) >= Len(ARNPrefix) /\ SubSeq(arn, 1, Len(ARNPrefix)) = ARNPrefix

ValidRoleARN(arn) ==
    ~(Len(arn) < MinARNLen \/ SubSeq(arn, 1, Len(ARNPrefix)) # ARNPrefix)

\* variant: the lower limit itself is refused
DurationInRangeExclusive(d) == ~(d <= MinDuration \/ d > MaxDuration)

DurationInRange(d) == ~(d < MinDuration \/ d > MaxDuration)

\* the assume-role branch of the dual-mode resolution
ResolveAssumeRole(region, ar) ==
    IF ar.role_arn = Null \/ ar.role_arn = ""
    THEN Failed("role_arn is required")
    ELSE IF ~ValidRoleARN(ar.role_arn)
    THEN Failed("invalid role_arn format")
    ELSE IF ~ar.duration.null /\ ~DurationInRange(ar.duration.value)
    THEN Failed("assume_role duration out of range")
    ELSE Resolved(
           [Region |-> region,
            InlineCredentials |-> NilPtr,
            AssumeRoleConfig |->
              [RoleARN |-> ar.role_arn,
               SessionName |-> IF ar.session_name # Null /\ ar.session_name # ""
                               THEN ar.session_name ELSE DefaultSessionName,
               ExternalID |-> IF ar.external_id # Null
                              THEN ar.external_id ELSE "",
               Duration |-> IF ar.duration.null THEN DefaultDuration
                            ELSE ar.duration.value,
               BaseCredentials |-> NilPtr]])

ResolveInline(region, c) ==
    Resolved([Region |-> region,
              InlineCredentials |-> [AccessKey |-> c.access_key,
                                     SecretKey |-> c.secret_key],
              AssumeRoleConfig |-> NilPtr])

\* variant: the assume-role block is looked at before the inline pair
GetAWSConfigAssumeRoleFirst(c) ==
    IF c = NullObject THEN Failed("AWS configuration is required")
    ELSE IF c.region = Null \/ c.region = ""
    THEN Failed("AWS region is required")
    ELSE IF ~hasInlineCreds(c) /\ ~hasAssumeRole(c)
    THEN Failed("AWS authentication is required")
    ELSE IF hasAssumeRole(c) THEN ResolveAssumeRole(c.region, c.assume_role)
    ELSE ResolveInline(c.region, c)

\* the dual-mode resolution: inline credentials, or an assumed role
GetAWSConfig(c) ==
    IF c = NullObject THEN Failed("AWS configuration is required")
    ELSE IF c.region = Null \/ c.region = ""
    THEN Failed("AWS region is required")
    ELSE IF ~hasInlineCreds(c) /\ ~hasAssumeRole(c)
    THEN Failed("AWS authentication is required")
    ELSE IF hasInlineCreds(c) THEN ResolveInline(c.region, c)
    ELSE ResolveAssumeRole(c.region, c.assume_role)

\* the assume-role-only resolution: the pod's own role assumes the target role
GetAWSConfigIRSA(c) ==
    IF c = NullObject THEN Failed("AWS configuration is required")
    ELSE IF c.region = Null \/ c.region = ""
    THEN Failed("AWS region is required")
    ELSE IF c.assume_role = NullObject
    THEN Failed("assume_role configuration is required")
    ELSE IF c.assume_role.role_arn = Null \/ c.assume_role.role_arn = ""
    THEN Failed("role_arn is required")
    ELSE IF ~ValidRoleARN(c.assume_role.role_arn)
    THEN Failed("invalid role_arn format")
    ELSE Resolved(
           [Region |-> c.region,
            AssumeRoleConfig |->
              [RoleARN |-> c.assume_role.role_arn,
               ExternalID |-> IF c.assume_role.external_id # Null
                              THEN c.assume_role.external_id ELSE "",
               SessionName |-> IF c.assume_role.session_name # Null
                               THEN c.assume_role.session_name ELSE ""]])

\* The provider block is any of the configurations; one step resolves it, by
\* the dual-mode function or by the assume-role-only one.
AwsInit ==
    /\ flavor = "aws"
    /\ clusterEnv = "c-42"
    /\ plan \in ProviderAWSConfigs
    /\ state = NullState
    /\ store = <<>>
    /\ op = "none"
    /\ pc = At("resolve", 1)
    /\ token = 0
    /\ calls = <<>>
    /\ diag = NoDiag
    /\ extLog = {}
    /\ nOps = 0
    /\ nExtWrites = 0
    /\ nExtDeletes = 0

AwsFrame ==
    UNCHANGED <<flavor, clusterEnv, store, plan, token, calls, diag, extLog,
                nOps, nExtWrites, nExtDeletes>>

ApplyGetAWSConfig ==
    /\ pc = At("resolve", 1)
    /\ op' = "GetAWSConfig"
    /\ state' = GetAWSConfig(plan)
    /\ pc' = Idle
    /\ AwsFrame

ApplyGetAWSConfigIRSA ==
    /\ pc = At("resolve", 1)
    /\ op' = "GetAWSConfigIRSA"
    /\ state' = GetAWSConfigIRSA(plan)
    /\ pc' = Idle
    /\ AwsFrame

AwsNext ==
    \/ ApplyGetAWSConfig
    \/ ApplyGetAWSConfigIRSA

AwsSpec == AwsInit /\ [][AwsNext]_vars

\* the provider block has been resolved by the named function
ResolvedBy(name) == pc = Idle /\ op = name

IsSet(p) == p # NilPtr

\* C21: every successful dual-mode resolution sets exactly one of the inline
\* credentials and the assume-role configuration, and a block with a non-empty
\* access/secret pair and an assume-role block resolves to the inline shape,
\* whatever the assume-role block holds.
C21_ExactlyOneShape ==
    ResolvedBy("GetAWSConfig") =>
        /\ state.err = "" =>
              IsSet(state.config.InlineCredentials)
                  # IsSet(state.config.AssumeRoleConfig)
        /\ (/\ plan # NullObject
            /\ plan.region \notin {Null, ""}
            /\ plan.access_key \notin {Null, ""}
            /\ plan.secret_key \notin {Null, ""}
            /\ plan.assume_role # NullObject)
           => /\ state.err = ""
              /\ state.config.InlineCredentials =
                    [AccessKey |-> plan.access_key,
                     SecretKey |-> plan.secret_key]
              /\ ~IsSet(state.config.AssumeRoleConfig)

\* a pair and a block with a malformed ARN and a duration out of range have
\* been given, and the result is the inline shape
C21_Witness ==
    /\ ResolvedBy("GetAWSConfig")
    /\ plan # NullObject
    /\ plan.access_key = "AKIAEXAMPLE" /\ plan.secret_key = "wJalrEXAMPLEKEY"
    /\ plan.assume_role # NullObject
    /\ plan.assume_role.role_arn = "arn:aws:iam::1:r"
    /\ plan.assume_role.duration = Int64Value(899)
    /\ state.err = ""
    /\ IsSet(state.config.InlineCredentials)
    /\ ~IsSet(state.config.AssumeRoleConfig)

\* the block as the claims describe it
CompleteInlinePair(c) ==
    c.access_key \notin {Null, ""} /\ c.secret_key \notin {Null, ""}

MalformedARN(arn) ==
    \/ arn \in {Null, ""}
    \/ Len(arn) < 20
    \/ SubSeq(arn, 1, 13) # "arn:aws:iam::"

NoResolution == state.err # "" /\ state.config = NilPtr

ResolvedByEither == ResolvedBy("GetAWSConfig") \/ ResolvedBy("GetAWSConfigIRSA")

\* C22 as stated: resolution fails and returns no configuration when the
\* region is missing or empty, when neither a complete inline pair nor an
\* assume-role block is given, and when the target ARN of the assume-role block
\* is missing, shorter than 20 characters or lacks the prefix arn:aws:iam::.
C22_BadBlockAlwaysRefused ==
    (ResolvedByEither /\ plan # NullObject) =>
        /\ plan.region \in {Null, ""} => NoResolution
        /\ (~CompleteInlinePair(plan) /\ plan.assume_role = NullObject)
              => NoResolution
        /\ (plan.assume_role # NullObject
              /\ MalformedARN(plan.assume_role.role_arn))
              => NoResolution

\* C22: as above, but the dual-mode resolution looks at the target ARN only
\* when no complete inline pair is given; the assume-role-only resolution
\* always looks at it.
C22_BadBlockRefused ==
    (ResolvedByEither /\ plan # NullObject) =>
        /\ plan.region \in {Null, ""} => NoResolution
        /\ (~CompleteInlinePair(plan) /\ plan.assume_role = NullObject)
              => NoResolution
        /\ (/\ plan.assume_role # NullObject
            /\ MalformedARN(plan.assume_role.role_arn)
            /\ op = "GetAWSConfig" => ~CompleteInlinePair(plan))
              => NoResolution

\* the dual-mode resolution has refused a block with a region, no inline pair
\* and a target ARN of 16 characters
C22_Witness ==
    /\ ResolvedBy("GetAWSConfig")
    /\ plan # NullObject
    /\ plan.region = "us-east-1"
    /\ ~CompleteInlinePair(plan)
    /\ plan.assume_role # NullObject
    /\ plan.assume_role.role_arn = "arn:aws:iam::1:r"
    /\ NoResolution

\* C23: a block with a region, no inline pair and an assume-role block with a
\* well-formed ARN resolves exactly when the duration is absent or lies in
\* [900, 43200]; the result carries 3600 for an absent duration and the given
\* duration otherwise, so 900 and 43200 succeed unchanged and 899 and 43201 fail.
C23_DurationRange ==
    (/\ ResolvedBy("GetAWSConfig")
     /\ plan # NullObject
     /\ plan.region \notin {Null, ""}
     /\ ~CompleteInlinePair(plan)
     /\ plan.assume_role # NullObject
     /\ ~MalformedARN(plan.assume_role.role_arn))
    => LET d == plan.assume_role.duration
       IN  /\ state.err = "" <=> (d.null \/ (d.value >= 900 /\ d.value <= 43200))
           /\ state.err = "" =>
                 state.config.AssumeRoleConfig.Duration =
                     IF d.null THEN 3600 ELSE d.value
           /\ d \in {Int64Value(900), Int64Value(43200)} => state.err = ""
           /\ d \in {Int64Value(899), Int64Value(43201)} => NoResolution

\* a duration of 900 has been resolved and is carried unchanged
C23_Witness ==
    /\ ResolvedBy("GetAWSConfig")
    /\ plan # NullObject
    /\ ~CompleteInlinePair(plan)
    /\ plan.assume_role # NullObject
    /\ plan.assume_role.duration = Int64Value(900)
    /\ state.err = ""
    /\ state.config.AssumeRoleConfig.Duration = 900

----------------------------------------------------------------------------
\* The Task's steps as the resources build them, and the bootstrap script of
\* the StepAction run statement by statement in the Task's pod.  plan is the
\* resource's plan (its StepAction name and its caller steps) and what the run
\* meets (the script, the outcome of the assume-role call, the kubeconfig
\* parameter); state is the pod (the steps of the built Task, the shell's
\* variables, and its exit status once it has ended); store is the
\* workspace's files.

AwsConfigFile == "/workspace/.aws/config"

AwsCredentialsFile == "/workspace/.aws/credentials"

KubeConfigFile == "/workspace/.kube/config"

EnvVar(name, value) == [name |-> name, value |-> value]

\* a types.Object that is unknown: not null, and not convertible
UnknownObject == [unknown |-> TRUE]

NullMap == [null |-> TRUE]

\* types.List: null, or its elements
NullList == [null |-> TRUE, elems |-> <<>>]

ListValue(elems) == [null |-> FALSE, elems |-> elems]

ResourcesBlocks ==
    {NullObject, UnknownObject,
     [requests |-> [cpu |-> "100m"], limits |-> NullMap]}

\* the caller's steps: one with two env entries and any resources block, one
\* without an env list and without resources
StepModels ==
    [name : {"build"}, image : {"golang:1.22"}, script : {"make"},
     resources : ResourcesBlocks,
     env : {ListValue(<<EnvVar("FOO", "1"), EnvVar("BAR", "2")>>)}]
    \cup
    [name : {"deploy"}, image : {"alpine"}, script : {"./deploy.sh"},
     resources : {NullObject}, env : {NullList}]

MaxSteps == 2

StepLists ==
    UNION {[1..n -> StepModels] : n \in 0..MaxSteps}

\* step.Resources.As(ctx, &computeRes, ...) reports an error
ConversionFails(resources) == resources = UnknownObject

\* the conversion of the caller's env list
envVars(step) == IF step.env.null THEN <<>> ELSE step.env.elems

\* what the resource appends to every caller step's env list
InjectedEnv(f) ==
    IF f = "kubernetes"
    THEN <<EnvVar("KUBECONFIG", KubeConfigFile)>>
    ELSE <<EnvVar("AWS_WEB_IDENTITY_TOKEN_FILE", ""),
           EnvVar("AWS_ROLE_ARN", ""),
           EnvVar("AWS_STS_REGIONAL_ENDPOINTS", ""),
           EnvVar("AWS_CONFIG_FILE", AwsConfigFile),
           EnvVar("AWS_SHARED_CREDENTIALS_FILE", AwsCredentialsFile)>>

\* variant: the injected variables come first
envListInjectedFirst(f, step) == InjectedEnv(f) \o envVars(step)

envList(f, step) == envVars(step) \o InjectedEnv(f)

\* requests and limits, each only when it is there and not empty
computeResources(resources) ==
    [k \in {x \in {"requests", "limits"} : resources[x] # NullMap}
        |-> resources[k]]

tektonStep(f, step) ==
    LET base == [name |-> step.name, image |-> step.image,
                 script |-> step.script, env |-> envList(f, step)]
    IN  IF step.resources # NullObject
           /\ ~ConversionFails(step.resources)
           /\ DOMAIN computeResources(step.resources) # {}
        THEN base @@ [computeResources |-> computeResources(step.resources)]
        ELSE base

setupCredentialsStep(stepActionName) ==
    [name |-> "setup-credentials", ref |-> [name |-> stepActionName]]

\* the loop of buildTask and buildAWSTask: a step whose resources do not
\* convert is left by continue before it is appended
tektonSteps(f, stepActionName, steps) ==
    LET kept == SelectSeq(steps, LAMBDA s :
                    ~(s.resources # NullObject /\ ConversionFails(s.resources)))
    IN  <<setupCredentialsStep(stepActionName)>>
        \o [i \in 1..Len(kept) |-> tektonStep(f, kept[i])]

\* tekton.BuildStepWithResources and tekton.AddEnvVar: the step is always
\* returned, without computeResources when its resources do not convert
BuildStepWithResources(step) ==
    LET base == [name |-> step.name, image |-> step.image,
                 script |-> step.script]
        withEnv == IF ~step.env.null
                   THEN base @@ [env |-> envVars(step)] ELSE base
    IN  IF step.resources # NullObject
           /\ ~ConversionFails(step.resources)
           /\ DOMAIN computeResources(step.resources) # {}
        THEN withEnv @@ [computeResources |-> computeResources(step.resources)]
        ELSE withEnv

AddEnvVar(step, name, value) ==
    LET existing == IF "env" \in DOMAIN step THEN step.env ELSE <<>>
    IN  [env |-> Append(existing, EnvVar(name, value))] @@ step

\* the loop of the Kubernetes resource that uses the tekton package
tektonStepsWithPackage(stepActionName, steps) ==
    <<setupCredentialsStep(stepActionName)>>
    \o [i \in 1..Len(steps) |->
          AddEnvVar(BuildStepWithResources(steps[i]), "KUBECONFIG",
                    KubeConfigFile)]

Scripts == {"inline", "assume_role", "kubeconfig"}

\* a field of the response: not there, JSON null, or a JSON string
Missing == "<missing>"

JsonNull == "<json null>"

ResponseFields == {"AccessKeyId", "SecretAccessKey", "SessionToken"}

FieldValues == {Missing, JsonNull, "", "TEMPORARY"}

\* what the run meets: exit is the status of the assume-role call, json says
\* whether its output (stdout and stderr together) parses, kubeconfig says
\* whether the parameter decodes
Runs ==
    [script : {"assume_role"}, exit : {0, 254}, json : BOOLEAN,
     response : [ResponseFields -> FieldValues], kubeconfig : {TRUE}]
    \cup
    [script : {"inline"}, exit : {0}, json : {TRUE},
     response : {[f \in ResponseFields |-> Missing]}, kubeconfig : {TRUE}]
    \cup
    [script : {"kubeconfig"}, exit : {0}, json : {TRUE},
     response : {[f \in ResponseFields |-> Missing]}, kubeconfig : BOOLEAN]

\* jq -r '.Credentials.<field>'
JqRaw(v) == IF v \in {Missing, JsonNull} THEN "null" ELSE v

Shell ==
    [ASSUME_ROLE_EXIT_CODE |-> 0, AWS_ACCESS_KEY_ID |-> "",
     AWS_SECRET_ACCESS_KEY |-> "", AWS_SESSION_TOKEN |-> "",
     exited |-> FALSE, code |-> 0]

Exit(sh, n) == [sh EXCEPT !.exited = TRUE, !.code = n]

\* variant: every extracted value is tested
CredentialsExtractedAll(sh) ==
    \A v \in {sh.AWS_ACCESS_KEY_ID, sh.AWS_SECRET_ACCESS_KEY,
              sh.AWS_SESSION_TOKEN} : ~(v = "" \/ v = "null")

\* [ -z "$AWS_ACCESS_KEY_ID" ] || [ "$AWS_ACCESS_KEY_ID" == "null" ]
CredentialsExtracted(sh) ==
    ~(sh.AWS_ACCESS_KEY_ID = "" \/ sh.AWS_ACCESS_KEY_ID = "null")

WriteFile(files, path, content) == (path :> content) @@ files

TaskRunInit ==
    /\ flavor \in Flavors
    /\ clusterEnv = ""
    /\ \E r \in Runs, steps \in StepLists :
          /\ r.script = "kubeconfig" <=> flavor = "kubernetes"
          /\ plan = [StepActionName |->
                        generateResourceNames(flavor, "my-app", "prod",
                                              "restart").StepActionName,
                     Steps |-> steps] @@ r
    /\ state = NullState
    /\ store = <<>>
    /\ op = "none"
    /\ pc = At("build", 1)
    /\ token = 0
    /\ calls = <<>>
    /\ diag = NoDiag
    /\ extLog = {}
    /\ nOps = 0
    /\ nExtWrites = 0
    /\ nExtDeletes = 0

TaskRunFrame ==
    UNCHANGED <<flavor, clusterEnv, plan, token, calls, diag, extLog,
                nOps, nExtWrites, nExtDeletes>>

\* the Task is built and its pod starts with the bootstrap script
StartPod(builder, steps) ==
    /\ pc = At("build", 1)
    /\ state' = [builder |-> builder, steps |-> steps] @@ Shell
    /\ pc' = At(plan.script, 1)
    /\ op' = builder
    /\ UNCHANGED store
    /\ TaskRunFrame

\* buildTask of the Kubernetes resource, buildAWSTask of the AWS resource
BuildTaskSteps ==
    StartPod("buildTask",
             tektonSteps(flavor, plan.StepActionName, plan.Steps))

\* buildTask of the Kubernetes resource that uses the tekton package
BuildTaskStepsWithPackage ==
    /\ flavor = "kubernetes"
    /\ StartPod("tekton.BuildStepWithResources",
                tektonStepsWithPackage(plan.StepActionName, plan.Steps))

\* one statement has run: the shell goes on at position i, or has ended
Continue(sh, i) ==
    /\ state' = sh
    /\ pc' = IF sh.exited THEN Idle ELSE At(plan.script, i)
    /\ op' = plan.script

\* set -e; mkdir; the config file with the region; chmod
AssumeRoleWriteConfig ==
    /\ pc = At("assume_role", 1)
    /\ store' = WriteFile(store, AwsConfigFile, <<"region">>)
    /\ Continue(state, 2)
    /\ TaskRunFrame

\* set +e; ASSUME_ROLE_OUTPUT=$(aws sts assume-role ... 2>&1); set -e
AssumeRoleCall ==
    /\ pc = At("assume_role", 2)
    /\ Continue([state EXCEPT !.ASSUME_ROLE_EXIT_CODE = plan.exit], 3)
    /\ UNCHANGED store
    /\ TaskRunFrame

\* if [ $ASSUME_ROLE_EXIT_CODE -ne 0 ]; then exit 1
AssumeRoleCheckExitCode ==
    /\ pc = At("assume_role", 3)
    /\ Continue(IF state.ASSUME_ROLE_EXIT_CODE # 0 THEN Exit(state, 1)
                ELSE state, 4)
    /\ UNCHANGED store
    /\ TaskRunFrame

\* the jq extractions; under set -e a jq that cannot parse ends the script
AssumeRoleExtract ==
    /\ pc = At("assume_role", 4)
    /\ Continue(IF ~plan.json THEN Exit(state, 2)
                ELSE [state EXCEPT
                        !.AWS_ACCESS_KEY_ID = JqRaw(plan.response["AccessKeyId"]),
                        !.AWS_SECRET_ACCESS_KEY =
                            JqRaw(plan.response["SecretAccessKey"]),
                        !.AWS_SESSION_TOKEN =
                            JqRaw(plan.response["SessionToken"])], 5)
    /\ UNCHANGED store
    /\ TaskRunFrame

\* the validation of what was extracted
AssumeRoleValidate ==
    /\ pc = At("assume_role", 5)
    /\ Continue(IF ~CredentialsExtracted(state) THEN Exit(state, 1)
                ELSE state, 6)
    /\ UNCHANGED store
    /\ TaskRunFrame

\* the credentials file with the three values; chmod; the script ends
AssumeRoleWriteCredentials ==
    /\ pc = At("assume_role", 6)
    /\ store' = WriteFile(store, AwsCredentialsFile,
                          <<state.AWS_ACCESS_KEY_ID,
                            state.AWS_SECRET_ACCESS_KEY,
                            state.AWS_SESSION_TOKEN>>)
    /\ Continue(Exit(state, 0), 7)
    /\ TaskRunFrame

\* the script with the static pair: both files, chmod, end
InlineScript ==
    /\ pc = At("inline", 1)
    /\ store' = WriteFile(WriteFile(store, AwsCredentialsFile,
                                    <<"access key", "secret key">>),
                          AwsConfigFile, <<"region">>)
    /\ Continue(Exit(state, 0), 2)
    /\ TaskRunFrame

\* the Kubernetes script: the decoded parameter is redirected to the file
KubeconfigScript ==
    /\ pc = At("kubeconfig", 1)
    /\ store' = WriteFile(store, KubeConfigFile,
                          IF plan.kubeconfig THEN <<"kubeconfig">> ELSE <<>>)
    /\ Continue(Exit(state, IF plan.kubeconfig THEN 0 ELSE 1), 2)
    /\ TaskRunFrame

TaskRunNext ==
    \/ BuildTaskSteps
    \/ BuildTaskStepsWithPackage
    \/ AssumeRoleWriteConfig
    \/ AssumeRoleCall
    \/ AssumeRoleCheckExitCode
    \/ AssumeRoleExtract
    \/ AssumeRoleValidate
    \/ AssumeRoleWriteCredentials
    \/ InlineScript
    \/ KubeconfigScript

TaskRunSpec == TaskRunInit /\ [][TaskRunNext]_vars

\* the named script has ended
ScriptEnded(name) == pc = Idle /\ op = name /\ state.exited

\* C24: the assume-role script ends with a non-zero exit and without the
\* credentials file whenever the assume-role call fails or one of the access
\* key id, the secret access key and the session token of its response is
\* missing, empty or null.
C24_IncompleteResponseRefused ==
    (/\ ScriptEnded("assume_role")
     /\ \/ plan.exit # 0
        \/ \E f \in ResponseFields : plan.response[f] \in {Missing, JsonNull, ""})
    => /\ state.code # 0
       /\ AwsCredentialsFile \notin DOMAIN store

\* the Task has been built by the named builder
TaskBuilt(builder) == pc.phase # "build" /\ state.builder = builder

CallerPart(step) == [k \in {"name", "image", "script"} |-> step[k]]

\* C25: the built Task has one step more than the caller gave, whatever the
\* steps' resources blocks: the first is the reference to the StepAction of
\* the resource, the others are the caller's steps in the caller's order with
\* the caller's name, image and script.
C25_AllCallerStepsBuilt ==
    \A b \in {"buildTask", "tekton.BuildStepWithResources"} :
        TaskBuilt(b) =>
            /\ Len(state.steps) = Len(plan.Steps) + 1
            /\ "ref" \in DOMAIN state.steps[1]
            /\ state.steps[1].ref.name = plan.StepActionName
            /\ \A i \in 1..Len(plan.Steps) :
                  CallerPart(state.steps[i + 1]) = CallerPart(plan.Steps[i])

\* the path variables as the documentation lists them
PathVariables ==
    IF flavor = "kubernetes"
    THEN <<EnvVar("KUBECONFIG", "/workspace/.kube/config")>>
    ELSE <<EnvVar("AWS_CONFIG_FILE", "/workspace/.aws/config"),
           EnvVar("AWS_SHARED_CREDENTIALS_FILE", "/workspace/.aws/credentials")>>

StartsWith(s, prefix) ==
    Len(s) >= Len(prefix) /\ SubSeq(s, 1, Len(prefix)) = prefix

EndsWith(s, suffix) ==
    Len(s) >= Len(suffix)
      /\ SubSeq(s, Len(s) - Len(suffix) + 1, Len(s)) = suffix

CallerEnv(step) == IF step.env.null THEN <<>> ELSE step.env.elems

----------------------------------------------------------------------------
\* Create and Update of the AWS resource with the provider's AWS block: the
\* StepAction carries the script compiled from the resolved configuration.
\* Two runs that differ only in the provider's credentials are kept side by
\* side: plan holds the two blocks and which calls reach the store, and state,
\* store and diag hold, for each run, what the run leaves.

\* the scripts, by what is written into their template
generateInlineCredentialsScript(config) ==
    [template  |-> "inline",
     AccessKey |-> config.InlineCredentials.AccessKey,
     SecretKey |-> config.InlineCredentials.SecretKey,
     Region    |-> config.Region]

generateAssumeRoleScript(config) ==
    [template    |-> "assume_role",
     Region      |-> config.Region,
     RoleARN     |-> config.AssumeRoleConfig.RoleARN,
     SessionName |-> config.AssumeRoleConfig.SessionName,
     ExternalID  |-> config.AssumeRoleConfig.ExternalID,
     Duration    |-> config.AssumeRoleConfig.Duration]

\* the StepAction of the AWS resource, or the error of the resolution
buildAWSStepAction(p, labels, c) ==
    LET r == GetAWSConfig(c)
    IN  IF r.err # "" THEN [err |-> r.err, obj |-> NoObject]
        ELSE [err |-> "",
              obj |-> [script |->
                         IF IsSet(r.config.AssumeRoleConfig)
                         THEN generateAssumeRoleScript(r.config)
                         ELSE generateInlineCredentialsScript(r.config)]
                      @@ buildStepAction(p, labels)]

\* updateResource: get, copy the resourceVersion, update
updateResource(s, obj, reachGet, reachUpdate) ==
    LET g == StoreGet(s, KeyOf(obj), reachGet)
    IN  IF g.err # "ok" THEN [err |-> g.err, store |-> s]
        ELSE StoreUpdate(s, SetResourceVersion(obj, g.obj.resourceVersion),
                         reachUpdate)

RunResult(recorded, s, errors) ==
    [state |-> recorded, store |-> s, errors |-> errors]

\* variant: the script of the StepAction is recorded with the plan
StateSetWithScript(p, stepAction) == [Script |-> stepAction.script] @@ p

\* resp.State.Set(ctx, plan): the plan, and nothing of the StepAction built
StateSet(p, stepAction) == p

\* Create of the AWS resource, from no state
CreateAWS(spec, c, s0, reach) ==
    LET p      == PlanForCreate(spec)
        labels == PlanLabels(p)
        sa     == buildAWSStepAction(p, labels, c)
        r1     == StoreCreate(s0, sa.obj, reach[1])
        r2     == StoreCreate(r1.store, buildTask(p, labels), reach[2])
    IN  IF sa.err # ""
        THEN RunResult(NullState, s0, <<"Error building StepAction">>)
        ELSE IF r1.err # "ok"
        THEN RunResult(NullState, r1.store, <<"Error creating StepAction">>)
        ELSE IF r2.err # "ok"
        THEN RunResult(NullState, r2.store, <<"Error creating Task">>)
        ELSE RunResult(StateSet(p, sa.obj), r2.store, <<>>)

\* Update of the AWS resource, from the state prior
UpdateAWS(spec, prior, c, s0, reach) ==
    LET p      == PlanForUpdate(spec, prior)
        labels == PlanLabels(p)
        sa     == buildAWSStepAction(p, labels, c)
        r1     == updateResource(s0, sa.obj, reach[1], reach[2])
        r2     == updateResource(r1.store, buildTask(p, labels),
                                 reach[3], reach[4])
    IN  IF sa.err # ""
        THEN RunResult(prior, s0, <<"Error building StepAction">>)
        ELSE IF r1.err # "ok"
        THEN RunResult(prior, r1.store, <<"Error updating StepAction">>)
        ELSE IF r2.err # "ok"
        THEN RunResult(prior, r2.store, <<"Error updating Task">>)
        ELSE RunResult(StateSet(p, sa.obj), r2.store, <<>>)

\* provider blocks with one region that differ in the access key, the secret
\* key and the assume-role settings only
CredentialSettings ==
    {c \in ProviderAWSConfigs \ {NullObject} :
        /\ c.region = "us-east-1"
        /\ <<c.access_key, c.secret_key>> \in
              {<<Null, Null>>, <<"AKIAEXAMPLE", "wJalrEXAMPLEKEY">>}
        /\ c.assume_role # NullObject =>
              /\ c.assume_role.role_arn \in
                    {"", "arn:aws:iam::123456789012:role/my-role"}
              /\ c.assume_role.session_name \in {Null, "test-session"}
              /\ c.assume_role.external_id = Null
              /\ c.assume_role.duration \in {NullInt64, Int64Value(900)}}

Twins == {"a", "b"}

\* the objects and the state that an earlier Create of spec left
AppliedAWS(spec, c) ==
    CreateAWS(spec, c, <<>>, [i \in 1..2 |-> TRUE])

TwinInit ==
    /\ flavor = "aws"
    /\ clusterEnv = "c-42"
    /\ plan \in [a : CredentialSettings, b : CredentialSettings,
                 reach : [1..4 -> BOOLEAN]]
    /\ state = NullState
    /\ store = <<>>
    /\ op = "none"
    /\ pc = At("twin", 1)
    /\ token = 0
    /\ calls = <<>>
    /\ diag = NoDiag
    /\ extLog = {}
    /\ nOps = 0
    /\ nExtWrites = 0
    /\ nExtDeletes = 0

TwinFrame ==
    UNCHANGED <<flavor, clusterEnv, plan, token, calls, extLog,
                nOps, nExtWrites, nExtDeletes>>

TwinDone(name, run) ==
    /\ pc = At("twin", 1)
    /\ op' = name
    /\ state' = [t \in Twins |-> run[t].state]
    /\ store' = [t \in Twins |-> run[t].store]
    /\ diag' = [t \in Twins |-> run[t].errors]
    /\ pc' = Idle
    /\ TwinFrame

\* both runs create the resource in an empty cluster
TwinCreate ==
    TwinDone("Create",
             [t \in Twins |-> CreateAWS(BaseSpec, plan[t], <<>>, plan.reach)])

\* both runs update the resource that an earlier run created with the static
\* pair
TwinUpdate ==
    LET earlier == AppliedAWS(BaseSpec,
                              [region |-> "us-east-1",
                               access_key |-> "AKIAEXAMPLE",
                               secret_key |-> "wJalrEXAMPLEKEY",
                               assume_role |-> NullObject])
    IN  TwinDone("Update",
                 [t \in Twins |-> UpdateAWS(BaseSpec, earlier.state, plan[t],
                                            earlier.store, plan.reach)])

TwinNext ==
    \/ TwinCreate
    \/ TwinUpdate

TwinSpec == TwinInit /\ [][TwinNext]_vars

TwinsRan == pc = Idle /\ op \in {"Create", "Update"}

Succeeded(t) == diag[t] = <<>>

WrittenScript(t) ==
    store[t][StateKey("StepAction", state[t])].script

\* C27: two runs of Create, or of Update, of an AWS action that differ only
\* in the access key, the secret key or the assume-role settings and that both
\* succeed record the same state, and no value of the provider's block is in
\* it; the credentials are in the script of the StepAction only.
C27_CredentialsNotInState ==
    (TwinsRan /\ \A t \in Twins : Succeeded(t)) =>
        /\ state["a"] = state["b"]
        /\ \A t \in Twins :
              /\ DOMAIN state[t] =
                    {"ID", "Name", "FacetsResourceName", "EnvUniqueName",
                     "Kind", "Namespace", "TaskName", "StepActionName"}
              /\ \A k \in DOMAIN state[t] :
                    state[t][k] \notin {"AKIAEXAMPLE", "wJalrEXAMPLEKEY",
                                        "arn:aws:iam::123456789012:role/my-role"}

\* one Create used the static pair, the other assumed a role; both succeeded,
\* their StepActions differ and their states are the same
C27_Witness ==
    /\ TwinsRan /\ op = "Create"
    /\ \A t \in Twins : Succeeded(t)
    /\ plan.a.assume_role = NullObject
    /\ plan.b.access_key = Null
    /\ WrittenScript("a").template = "inline"
    /\ WrittenScript("b").template = "assume_role"
    /\ state["a"] = state["b"]
    /\ state["a"] # NullState

----------------------------------------------------------------------------
\* Recovery from partial failures (specification Spec)

\* the running Create makes its last call
CreateEnds == pc.phase = "create" /\ pc' = Idle /\ calls' # calls

\* C28: a Create that is run after an earlier operation and without any step
\* of another client, while the Task of its spec is absent and no state is
\* recorded, and all of whose calls reach the store, ends without error
\* with both objects in the store and the resource recorded; this is the
\* Create run again after a Create that failed at the Task.
C28_RecreateSucceeds ==
    [][(/\ CreateEnds
        /\ nOps >= 2
        /\ nExtWrites = 0 /\ nExtDeletes = 0
        /\ StateKey("Task", plan) \notin DOMAIN store
        /\ \A j \in 1..Len(calls') : calls'[j].err # "Transport")
       => /\ ~HasError(diag')
          /\ state' # NullState
          /\ \A k \in Kinds : StateKey(k, plan) \in DOMAIN store']_vars

\* the resource is recorded and its Task is not in the store
Orphaned(s, st) == s # NullState /\ StateKey("Task", s) \notin DOMAIN st

\* the running Delete makes a call
DeleteCalls == pc.phase = "delete" /\ calls' # calls

\* C29: a Delete that deleted the Task and failed to delete the StepAction
\* leaves the resource recorded without its Task; from then on the Task stays
\* absent as long as the resource is recorded, the first call of every later
\* Delete is a deletion of the Task that fails (not found, when it reaches
\* the store) and ends the Delete with an error, so that a deletion of the
\* StepAction is only ever issued by a Delete that has itself just deleted
\* the Task, and the StepAction of the orphaned resource leaves the store
\* only if another client deletes it.
C29_OrphanedStepActionStays ==
    [][/\ (DeleteCalls /\ pc.i = 2 /\ Last(calls').err # "ok")
              => Orphaned(state', store')
       /\ Orphaned(state, store)
              => (Orphaned(state', store') \/ state' = NullState)
       /\ (DeleteCalls /\ pc.i = 1 /\ Orphaned(state, store))
              => /\ Last(calls').kind = "Task"
                 /\ Last(calls').verb = "delete"
                 /\ Last(calls').err \in {"NotFound", "Transport"}
                 /\ Last(calls').err = "NotFound" \/ store' = store
                 /\ Len(calls') = 1
                 /\ pc' = Idle
                 /\ HasError(diag')
                 /\ store' = store
                 /\ state' = state
       /\ (DeleteCalls /\ pc.i = 2)
              => /\ calls[1].kind = "Task" /\ calls[1].err = "ok"
                 /\ Last(calls').kind = "StepAction"
       /\ (/\ Orphaned(state, store)
           /\ ~(pc.phase = "delete" /\ pc.i = 2)
           /\ StateKey("StepAction", state) \in DOMAIN store
           /\ StateKey("StepAction", state) \notin DOMAIN store')
              => nExtDeletes' = nExtDeletes + 1]_vars

\* the third operation was a Delete of a resource whose Task an earlier Delete
\* had removed: it made one call, which did not find the Task, and the
\* StepAction is still there
C29_Witness ==
    /\ Finished("Delete")
    /\ nOps = 3 /\ nExtDeletes = 0 /\ nExtWrites = 0
    /\ Orphaned(state, store)
    /\ Len(calls) = 1
    /\ calls[1].kind = "Task" /\ calls[1].err = "NotFound"
    /\ HasError(diag)
    /\ StateKey("StepAction", state) \in DOMAIN store

----------------------------------------------------------------------------
\* Applying the same configuration twice: a Create, then, in a new provider
\* process, an Update with the same spec and the same provider block, for the
\* Kubernetes resource and for the AWS resource under the dual-mode and the
\* chained-identity provider.  plan holds the inputs of the two runs: the
\* provider block, the CLUSTER_ID of each process, the session name that
\* generateRandomSessionName would return in each process, and which of the
\* six store calls reach the store.

\* the script of the Kubernetes StepAction is a constant
StaticScript == [template |-> "kubeconfig"]

\* values generateRandomSessionName returns: "terraform-" and 16 hex digits,
\* or "terraform-session-" and the process id when no random bytes are read
RandomSessionNames == {"terraform-3f9a1c0b7d2e4a61", "terraform-session-4242"}

\* variant: the session name is generated also when one is configured
GenerateAssumeRoleScriptAlwaysRandom(config, random) ==
    IF ~IsSet(config.AssumeRoleConfig) THEN [template |-> ""]
    ELSE [template    |-> "chained",
          RoleARN     |-> config.AssumeRoleConfig.RoleARN,
          SessionName |-> random,
          Region      |-> config.Region,
          ExternalID  |-> IF config.AssumeRoleConfig.ExternalID # ""
                          THEN <<config.AssumeRoleConfig.ExternalID>>
                          ELSE <<>>]

\* the config file of the chained-identity script, by what is written into its
\* template; random is what generateRandomSessionName returns in this call
GenerateAssumeRoleScript(config, random) ==
    IF ~IsSet(config.AssumeRoleConfig) THEN [template |-> ""]
    ELSE [template    |-> "chained",
          RoleARN     |-> config.AssumeRoleConfig.RoleARN,
          SessionName |-> IF config.AssumeRoleConfig.SessionName = ""
                          THEN random
                          ELSE config.AssumeRoleConfig.SessionName,
          Region      |-> config.Region,
          ExternalID  |-> IF config.AssumeRoleConfig.ExternalID # ""
                          THEN <<config.AssumeRoleConfig.ExternalID>>
                          ELSE <<>>]

BuildAWSStepAction(stepActionName, namespace, labels, awsConfig, random) ==
    [kind |-> "StepAction", name |-> stepActionName,
     namespace |-> namespace, labels |-> labels,
     script |-> GenerateAssumeRoleScript(awsConfig, random),
     ref |-> "", annotations |-> {}, resourceVersion |-> 0]

\* the StepAction of the Kubernetes resource with its script
buildStepActionWithScript(p, labels) ==
    [script |-> StaticScript] @@ buildStepAction(p, labels)

\* the StepAction of the AWS resource under the chained-identity provider, or
\* the error of the resolution
buildChainedStepAction(p, labels, c, random) ==
    LET r == GetAWSConfigIRSA(c)
    IN  IF r.err # "" THEN [err |-> r.err, obj |-> NoObject]
        ELSE [err |-> "",
              obj |-> BuildAWSStepAction(p.StepActionName, p.Namespace,
                                         labels, r.config, random)]

\* Create: the StepAction, then the Task; state is set when both are created
CreateBoth(p, sa, task, s0, reach) ==
    LET r1 == StoreCreate(s0, sa.obj, reach[1])
        r2 == StoreCreate(r1.store, task, reach[2])
    IN  IF sa.err # ""
        THEN RunResult(NullState, s0, <<"Error building StepAction">>)
        ELSE IF r1.err # "ok"
        THEN RunResult(NullState, r1.store, <<"Error creating StepAction">>)
        ELSE IF r2.err # "ok"
        THEN RunResult(NullState, r2.store, <<"Error creating Task">>)
        ELSE RunResult(p, r2.store, <<>>)

\* Update: the StepAction, then the Task, each by get and update
UpdateBoth(p, prior, sa, task, s0, reach) ==
    LET r1 == updateResource(s0, sa.obj, reach[1], reach[2])
        r2 == updateResource(r1.store, task, reach[3], reach[4])
    IN  IF sa.err # ""
        THEN RunResult(prior, s0, <<"Error building StepAction">>)
        ELSE IF r1.err # "ok"
        THEN RunResult(prior, r1.store, <<"Error updating StepAction">>)
        ELSE IF r2.err # "ok"
        THEN RunResult(prior, r2.store, <<"Error updating Task">>)
        ELSE RunResult(p, r2.store, <<>>)

Variants == {"kubernetes", "dual-mode", "chained-identity"}

\* the StepAction a handler of the variant builds for the plan p
StepActionOf(variant, p, c, random) ==
    IF variant = "kubernetes"
    THEN [err |-> "", obj |-> buildStepActionWithScript(p, PlanLabels(p))]
    ELSE IF variant = "dual-mode"
    THEN buildAWSStepAction(p, PlanLabels(p), c)
    ELSE buildChainedStepAction(p, PlanLabels(p), c, random)

CreateOf(variant, spec, c, random, s0, reach) ==
    LET p == PlanForCreate(spec)
    IN  CreateBoth(p, StepActionOf(variant, p, c, random),
                   buildTask(p, PlanLabels(p)), s0, reach)

UpdateOf(variant, spec, prior, c, random, s0, reach) ==
    LET p == PlanForUpdate(spec, prior)
    IN  UpdateBoth(p, prior, StepActionOf(variant, p, c, random),
                   buildTask(p, PlanLabels(p)), s0, reach)

\* provider blocks of the AWS resource: the static pair or not, and no
\* assume-role block or one with or without a session name and an external id
ReapplyConfigs ==
    {c \in ProviderAWSConfigs \ {NullObject} :
        /\ c.region = "us-east-1"
        /\ <<c.access_key, c.secret_key>> \in
              {<<Null, Null>>, <<"AKIAEXAMPLE", "wJalrEXAMPLEKEY">>}
        /\ c.assume_role # NullObject =>
              /\ c.assume_role.role_arn =
                    "arn:aws:iam::123456789012:role/my-role"
              /\ c.assume_role.duration = NullInt64}

ClusterIDs == {"", "c-42"}

ReapplyInputs ==
    {i \in [variant : Variants,
            cfg     : {NullObject} \cup ReapplyConfigs,
            envs    : ClusterIDs \X ClusterIDs,
            random  : RandomSessionNames \X RandomSessionNames,
            reach   : [1..6 -> BOOLEAN]] :
        i.variant = "kubernetes" <=> i.cfg = NullObject}

ReapplyInit ==
    /\ plan \in ReapplyInputs
    /\ flavor = IF plan.variant = "kubernetes" THEN "kubernetes" ELSE "aws"
    /\ clusterEnv = plan.envs[1]
    /\ state = NullState
    /\ store = <<>>
    /\ op = "none"
    /\ pc = At("reapply", 1)
    /\ token = 0
    /\ calls = <<>>
    /\ diag = NoDiag
    /\ extLog = {}
    /\ nOps = 0
    /\ nExtWrites = 0
    /\ nExtDeletes = 0

ReapplyFrame ==
    UNCHANGED <<flavor, plan, token, calls, extLog, nExtWrites, nExtDeletes>>

ReapplyDone(name, run, next) ==
    /\ op' = name
    /\ nOps' = nOps + 1
    /\ state' = run.state
    /\ store' = run.store
    /\ diag' = [errors |-> run.errors, warnings |-> <<>>]
    /\ pc' = IF run.errors = <<>> THEN next ELSE Idle
    /\ UNCHANGED clusterEnv
    /\ ReapplyFrame

\* the first apply creates the resource in an empty cluster
ReapplyCreate ==
    /\ pc = At("reapply", 1)
    /\ ReapplyDone("Create",
                   CreateOf(plan.variant, BaseSpec, plan.cfg, plan.random[1],
                            store, [i \in 1..2 |-> plan.reach[i]]),
                   At("reapply", 2))

\* the second apply runs in a new provider process, with its own CLUSTER_ID
NewProcess ==
    /\ pc = At("reapply", 2)
    /\ clusterEnv' = plan.envs[2]
    /\ pc' = At("reapply", 3)
    /\ UNCHANGED <<state, store, op, diag, nOps>>
    /\ ReapplyFrame

\* the second apply updates the resource with the same spec and block
ReapplyUpdate ==
    /\ pc = At("reapply", 3)
    /\ ReapplyDone("Update",
                   UpdateOf(plan.variant, BaseSpec, state, plan.cfg,
                            plan.random[2], store,
                            [i \in 1..4 |-> plan.reach[i + 2]]),
                   Idle)

ReapplyNext ==
    \/ ReapplyCreate
    \/ NewProcess
    \/ ReapplyUpdate

ReapplySpec == ReapplyInit /\ [][ReapplyNext]_vars

\* an object without its concurrency token
Content(obj) == [obj EXCEPT !.resourceVersion = 0]

\* the Update of the second apply runs, in a process with the CLUSTER_ID of
\* the first
SameApplyAgain == pc = At("reapply", 3) /\ plan.envs[1] = plan.envs[2]

\* every object in the store after the step was there before it with the same
\* content, and a successful Update has rewritten both objects
WritesStoredContent ==
    /\ \A k \in DOMAIN store' :
          k \in DOMAIN store /\ Content(store'[k]) = Content(store[k])
    /\ ~HasError(diag') =>
          \A k \in DOMAIN store' :
              store'[k].resourceVersion = store[k].resourceVersion + 1

\* the chained-identity provider is given a session name
SessionNameConfigured ==
    plan.variant = "chained-identity" =>
        plan.cfg.assume_role.session_name \notin {Null, ""}

\* C30 as stated: for every flavor and authentication variant, an Update with
\* the spec, the provider block and the CLUSTER_ID of the last apply writes a
\* StepAction and a Task whose content, the resourceVersion aside, equals the
\* stored content.
C30_ReapplyWritesStoredContentAlways ==
    [][SameApplyAgain => WritesStoredContent]_vars

\* C30, amended: the same, except under the chained-identity provider with no
\* session name (absent or empty), where the script of the StepAction carries
\* a newly generated role_session_name.
C30_ReapplyWritesStoredContent ==
    [][(SameApplyAgain /\ SessionNameConfigured) => WritesStoredContent]_vars

\* under the chained-identity provider with a session name, and different
\* random names in the two processes, the Update succeeded and rewrote both
\* objects with the content the Create had stored
C30_Witness ==
    /\ pc = Idle /\ op = "Update" /\ ~HasError(diag)
    /\ plan.variant = "chained-identity"
    /\ plan.cfg.assume_role.session_name = "test-session"
    /\ plan.random[1] # plan.random[2]
    /\ plan.envs[1] = plan.envs[2]
    /\ \A k \in Kinds : store[StateKey(k, state)].resourceVersion = 2
    /\ store[StateKey("StepAction", state)].script.SessionName = "test-session"
    /\ store[StateKey("StepAction", state)].script.template = "chained"

====
